---------------------------- MODULE Spec2Model ----------------------------
(***************************************************************************)
(* A model of the identity-resolution engine of Database-Tools:            *)
(*   tools.py              dict_search, dict_key_search, deep_eq           *)
(*   CityList.py           generate_city_aliases, City, CityList           *)
(*   AntigenicDatabase.py  Entry, Dataset                                  *)
(*                                                                         *)
(* Python strings are sequences of one-character strings.  Python values   *)
(* (str, number, list, dict) are tagged records [t, v]; a dict is the      *)
(* sequence of its (key, value) pairs in insertion order, keys distinct.   *)
(***************************************************************************)
EXTENDS Integers, Sequences, FiniteSets, TLC

VARIABLES
    pc,         \* position of the single thread: "idle" or inside aliased_search
    op,         \* the operation called last
    args,       \* its arguments
    ret,        \* what it returned (or the exception it raised)
    city_list,  \* CityList.cities: the Place Directory, in city_map order
    entries,    \* Dataset.entries, in order
    ids,        \* Dataset.ids: the ids of the entries, in order
    longs,      \* Dataset.longs: the long names of the entries, in order
    stdout,     \* what the program has printed: warnings and diagnostics
    I,          \* aliased_search: the score array in use
    max_hits,   \* aliased_search: np.max(I)
    trace       \* aliased_search: the scoring passes run so far, in order

vars == <<pc, op, args, ret, city_list, entries, ids, longs, stdout,
          I, max_hits, trace>>

-----------------------------------------------------------------------------
(* Characters and strings                                                  *)

Lower == <<"a","b","c","d","e","f","g","h","i","j","k","l","m",
           "n","o","p","q","r","s","t","u","v","w","x","y","z">>
Caps  == <<"A","B","C","D","E","F","G","H","I","J","K","L","M",
           "N","O","P","Q","R","S","T","U","V","W","X","Y","Z">>
Digits == {"0","1","2","3","4","5","6","7","8","9"}
Range26 == {Lower[i] : i \in 1..26}

\* str.upper() on one character
LowerIndex == [c \in Range26 |-> CHOOSE i \in 1..26 : Lower[i] = c]
UpperChar(c) == IF c \in Range26 THEN Caps[LowerIndex[c]] ELSE c

\* str.upper()
Upper(s) == [i \in 1..Len(s) |-> UpperChar(s[i])]

\* the characters x with x.isalpha(); those with x.isnumeric() are Digits
Letters == Range26 \cup {Caps[i] : i \in 1..26}

\* [x in chars for x in s].count(True)
Count(s, chars) == Cardinality({i \in 1..Len(s) : s[i] \in chars})

\* s[a..b] (1-based, inclusive), empty when b < a
Slice(s, a, b) == [i \in 1..(b - a + 1) |-> s[a + i - 1]]

RECURSIVE StringsUpTo(_, _)
\* the strings of at most n characters of S
StringsUpTo(S, n) ==
    IF n = 0 THEN {<<>>}
    ELSE {<<>>} \cup {<<c>> \o r : c \in S, r \in StringsUpTo(S, n - 1)}

\* `sub in s`
Contains(s, sub) ==
    \E k \in 0..(Len(s) - Len(sub)) : Slice(s, k + 1, k + Len(sub)) = sub

\* str.split(sep) for a one-character separator: never empty, keeps empty parts
RECURSIVE Split(_, _)
Split(s, sep) ==
    IF \A i \in 1..Len(s) : s[i] # sep
    THEN <<s>>
    ELSE LET k == CHOOSE i \in 1..Len(s) :
                     s[i] = sep /\ \A j \in 1..(i - 1) : s[j] # sep
         IN <<Slice(s, 1, k - 1)>> \o Split(Slice(s, k + 1, Len(s)), sep)

\* tools.flatten_list
RECURSIVE flatten_list(_)
flatten_list(ls) ==
    IF ls = <<>> THEN <<>> ELSE Head(ls) \o flatten_list(Tail(ls))

\* the elements of a list
Range(s) == {s[i] : i \in 1..Len(s)}

\* [s[i] for i in range(len(s)) if i in keep], from position i on: the
\* subsequence at the positions keep, order kept
RECURSIVE SelectIdx(_, _, _)
SelectIdx(s, keep, i) ==
    IF i > Len(s) THEN <<>>
    ELSE (IF i \in keep THEN <<s[i]>> ELSE <<>>) \o SelectIdx(s, keep, i + 1)

\* re.compile(pattern) succeeds.  The patterns of the model are made of
\* literal characters, the wildcard '.' and '(', which opens a group that
\* nothing closes: ')' is not a character of the model
ReValid(pattern) == \A j \in 1..Len(pattern) : pattern[j] # "("

\* re.compile(pattern[, re.IGNORECASE]).search(s) is not None, for the patterns
\* of the model: literal characters and the wildcard '.'
ReSearch(pattern, s, ignore_case) ==
    \E k \in 0..(Len(s) - Len(pattern)) :
        \A j \in 1..Len(pattern) :
            \/ pattern[j] = "."
            \/ IF ignore_case
               THEN UpperChar(pattern[j]) = UpperChar(s[k + j])
               ELSE pattern[j] = s[k + j]

\* the alternatives of a pattern: its parts between '|'
Alternatives(pattern) == Split(pattern, "|")

\* an alternative, of literal characters and '.', matches s from offset k on
ReMatchAt(alt, s, k, ignore_case) ==
    /\ k + Len(alt) <= Len(s)
    /\ \A j \in 1..Len(alt) :
           \/ alt[j] = "."
           \/ IF ignore_case
              THEN UpperChar(alt[j]) = UpperChar(s[k + j])
              ELSE alt[j] = s[k + j]

\* re.compile(pattern[, re.IGNORECASE]).search(s) is not None, for a pattern
\* that may hold alternatives
ReSearchAlt(pattern, s, ignore_case) ==
    \E a \in 1..Len(Alternatives(pattern)) :
        ReSearch(Alternatives(pattern)[a], s, ignore_case)

-----------------------------------------------------------------------------
(* Python values                                                           *)

PyStr(s)  == [t |-> "str",  v |-> s]
PyNum(n)  == [t |-> "num",  v |-> n]
PyList(l) == [t |-> "list", v |-> l]
PyDict(d) == [t |-> "dict", v |-> d]

\* d.keys(), d[k]
Keys(d) == [i \in 1..Len(d.v) |-> d.v[i][1]]
Get(d, k) == d.v[CHOOSE i \in 1..Len(d.v) : d.v[i][1] = k][2]

\* operator.eq where the left operand is a str or a number, or the right one
\* a number: equal only when of the same type and value
PyEq(x, y) == x.t = y.t /\ x.v = y.v


-----------------------------------------------------------------------------
(* tools.py                                                                *)

\* dict_search: is search_value the value of some key, an element of a list
\* value, or found so in a dict among them.  Returns on the first hit.
RECURSIVE dict_search(_, _, _, _)

\* dict_search with the case folding of the looked-up value left out
dict_search_nofold(dictionary, search_value, ignore_case, regexp) ==
    LET search_expression ==
            IF ~regexp /\ ignore_case THEN Upper(search_value) ELSE search_value
        comparitor(y) ==
            IF regexp THEN ReSearch(search_expression, y, ignore_case)
            ELSE search_expression = y
        lookup_values(i) ==
            IF dictionary.v[i][2].t = "list"
            THEN dictionary.v[i][2].v
            ELSE <<dictionary.v[i][2]>>
        hit(lookup_value) ==
            \/ /\ lookup_value.t = "dict"
               /\ dict_search(lookup_value, search_value, ignore_case, regexp)
            \/ /\ lookup_value.t = "str"
               /\ comparitor(lookup_value.v)
    IN \E i \in 1..Len(dictionary.v) :
           \E j \in 1..Len(lookup_values(i)) : hit(lookup_values(i)[j])

dict_search(dictionary, search_value, ignore_case, regexp) ==
    LET search_expression ==
            IF ~regexp /\ ignore_case THEN Upper(search_value) ELSE search_value
        comparitor(y) ==
            IF regexp THEN ReSearch(search_expression, y, ignore_case)
            ELSE search_expression = y
        lookup_values(i) ==
            IF dictionary.v[i][2].t = "list"
            THEN dictionary.v[i][2].v
            ELSE <<dictionary.v[i][2]>>
        hit(lookup_value) ==
            LET lookup_expression ==
                    IF ignore_case /\ lookup_value.t = "str"
                    THEN PyStr(Upper(lookup_value.v))
                    ELSE lookup_value
            IN \/ /\ lookup_value.t = "dict"
                  /\ dict_search(lookup_expression, search_value,
                                 ignore_case, regexp)
               \/ /\ lookup_value.t = "str"
                  /\ comparitor(lookup_expression.v)
    IN \E i \in 1..Len(dictionary.v) :
           \E j \in 1..Len(lookup_values(i)) : hit(lookup_values(i)[j])

\* dict_key_search: every (key, value) whose key matches, the pairs found
\* inside a dict value right after the pair of its own key
RECURSIVE dict_key_search(_, _, _, _)

\* dict_key_search with `elif` for the second test: a matching key's dict
\* value is not searched
dict_key_search_elif(dictionary, search_key, ignore_case, regexp) ==
    LET search_expression ==
            IF ~regexp /\ ignore_case THEN Upper(search_key) ELSE search_key
        comparitor(y) ==
            IF regexp THEN ReSearch(search_expression, y, ignore_case)
            ELSE search_expression = y
        key_expression(key) == IF ignore_case THEN Upper(key) ELSE key
        found(i) ==
            LET key == dictionary.v[i][1]
                lookup_value == dictionary.v[i][2]
            IN IF comparitor(key_expression(key))
               THEN <<(<<key, lookup_value>>)>>
               ELSE IF lookup_value.t = "dict"
                    THEN dict_key_search(lookup_value, search_key,
                                         ignore_case, regexp)
                    ELSE <<>>
    IN flatten_list([i \in 1..Len(dictionary.v) |-> found(i)])

dict_key_search(dictionary, search_key, ignore_case, regexp) ==
    LET search_expression ==
            IF ~regexp /\ ignore_case THEN Upper(search_key) ELSE search_key
        comparitor(y) ==
            IF regexp THEN ReSearch(search_expression, y, ignore_case)
            ELSE search_expression = y
        key_expression(key) == IF ignore_case THEN Upper(key) ELSE key
        found(i) ==
            LET key == dictionary.v[i][1]
                lookup_value == dictionary.v[i][2]
            IN (IF comparitor(key_expression(key))
                THEN <<(<<key, lookup_value>>)>> ELSE <<>>)
               \o (IF lookup_value.t = "dict"
                   THEN flatten_list(<<dict_key_search(lookup_value, search_key,
                                                       ignore_case, regexp)>>)
                   ELSE <<>>)
    IN flatten_list([i \in 1..Len(dictionary.v) |-> found(i)])

\* sum(deep_eq(a, b) for ...) == len(...): every term is evaluated, so an
\* exception raised by one of them leaves the sum
AllTrue(results) ==
    IF \E i \in 1..Len(results) : results[i] = "AttributeError"
    THEN "AttributeError"
    ELSE IF \A i \in 1..Len(results) : results[i] = "True"
         THEN "True" ELSE "False"

Bool(b) == IF b THEN "True" ELSE "False"

\* list(iter(x)) of an iterable: the elements of a list, the characters of a
\* str, the keys of a dict
Iter(x) ==
    CASE x.t = "list" -> x.v
      [] x.t = "str"  -> [i \in 1..Len(x.v) |-> PyStr(<<x.v[i]>>)]
      [] x.t = "dict" -> [i \in 1..Len(x.v) |-> PyStr(x.v[i][1])]

RECURSIVE deep_eq(_, _)

\* _deep_dict_eq that takes two dicts without keys for unequal
deep_dict_eq_nonempty(d1, d2) ==
    IF d2.t # "dict" THEN "AttributeError"
    ELSE IF Keys(d1) = <<>> \/ Range(Keys(d1)) # Range(Keys(d2)) THEN "False"
    ELSE AllTrue([i \in 1..Len(d1.v) |->
                     deep_eq(d1.v[i][2], Get(d2, d1.v[i][1]))])

\* _deep_dict_eq: d2.keys() raises AttributeError unless d2 is a dict; the
\* sorted key lists of two dicts are equal iff their key sets are
deep_dict_eq(d1, d2) ==
    IF d2.t # "dict" THEN "AttributeError"
    ELSE IF Range(Keys(d1)) # Range(Keys(d2)) THEN "False"
    ELSE AllTrue([i \in 1..Len(d1.v) |->
                     deep_eq(d1.v[i][2], Get(d2, d1.v[i][1]))])

\* _deep_iter_eq
deep_iter_eq(l1, l2) ==
    IF Len(l1) # Len(l2) THEN "False"
    ELSE AllTrue([i \in 1..Len(l1) |-> deep_eq(l1[i], l2[i])])

\* deep_eq: "True", "False" or the exception raised.  A str on the left is
\* compared with ==; a dict on the left by keys; otherwise both sides are
\* iterated, and compared with == when either cannot be (a number)
deep_eq(v1, v2) ==
    IF v1.t = "str" THEN Bool(PyEq(v1, v2))
    ELSE IF v1.t = "dict" THEN deep_dict_eq(v1, v2)
    ELSE IF v1.t = "num" \/ v2.t = "num" THEN Bool(PyEq(v1, v2))
    ELSE deep_iter_eq(Iter(v1), Iter(v2))

\* the longest titer string
MaxTiterLen == 4

RECURSIVE Pow10(_)
Pow10(n) == IF n = 0 THEN 1 ELSE 10 * Pow10(n - 1)

\* numbers are carried in units of 1/Scale, enough for every decimal a titer
\* string can spell
Scale == Pow10(MaxTiterLen)

\* int(c) for a digit c
DigitValue(c) ==
    CHOOSE d \in 0..9 : <<"0","1","2","3","4","5","6","7","8","9">>[d + 1] = c

RECURSIVE IntOf(_)
\* int(s) for a string of digits; 0 for the empty string
IntOf(s) ==
    IF s = <<>> THEN 0
    ELSE 10 * IntOf(Slice(s, 1, Len(s) - 1)) + DigitValue(s[Len(s)])

\* float(s) succeeds: digits with at most one '.', and at least one digit
IsFloat(s) ==
    /\ \A i \in 1..Len(s) : s[i] \in Digits \cup {"."}
    /\ Count(s, {"."}) <= 1
    /\ Count(s, Digits) >= 1

\* float(s), in units of 1/Scale, from the digits before and after the '.'
FloatParts(whole, frac) ==
    IntOf(whole) * Scale + IntOf(frac) * Pow10(MaxTiterLen - Len(frac))
FloatOf(s) ==
    IF Count(s, {"."}) = 0 THEN FloatParts(s, <<>>)
    ELSE FloatParts(Split(s, ".")[1], Split(s, ".")[2])

\* int(np.sqrt(n)) for n >= 0
IntSqrt(n) == CHOOSE r \in 0..n : r * r <= n /\ n < (r + 1) * (r + 1)

\* what a call of convert_titer comes to: an exception, or a value
TiterRaised(exception) == [raised |-> exception, value |-> 0]
TiterValue(val) == [raised |-> "none", value |-> val]

\* assert val != 0; return val
NonZero(val) == IF val = 0 THEN TiterRaised("AssertionError") ELSE TiterValue(val)

\* convert_titer, lines 226-234: '<' in titer
titer_below(titer) ==
    IF ~IsFloat(Tail(titer)) THEN TiterRaised("ValueError")
    ELSE NonZero(FloatOf(Tail(titer)) \div (2 * Scale))

\* convert_titer, lines 236-244: '>' in titer
titer_above(titer) ==
    IF ~IsFloat(Tail(titer)) THEN TiterRaised("ValueError")
    ELSE NonZero((2 * FloatOf(Tail(titer))) \div Scale)

\* convert_titer, lines 246-251: a plain number
titer_plain(titer) ==
    IF ~IsFloat(titer) THEN TiterRaised("ValueError")
    ELSE TiterValue(FloatOf(titer) \div Scale)

\* convert_titer, lines 221-224: the geometric mean of the two converted
\* parts, whichever exception comes first
titer_mean(val1, val2) ==
    IF val1.raised # "none" THEN val1
    ELSE IF val2.raised # "none" THEN val2
    ELSE IF val1.value = 0 \/ val2.value = 0 THEN TiterRaised("AssertionError")
    ELSE TiterValue(IntSqrt(val1.value * val2.value))

RECURSIVE convert_titer(_)
\* convert_titer: a string is converted, any other value returned as it is
convert_titer(titer) ==
    IF titer.t # "str" THEN TiterValue(titer.v)
    ELSE IF Contains(titer.v, <<"/">>)
    THEN titer_mean(convert_titer(PyStr(Split(titer.v, "/")[1])),
                    convert_titer(PyStr(Split(titer.v, "/")[2])))
    ELSE IF Contains(titer.v, <<"<">>) THEN titer_below(titer.v)
    ELSE IF Contains(titer.v, <<">">>) THEN titer_above(titer.v)
    ELSE titer_plain(titer.v)

-----------------------------------------------------------------------------
(* CityList.py                                                             *)

\* str.replace(old, new) for a one-character old and a new of at most one
\* character (new = <<>> removes)
RECURSIVE Replace(_, _, _)
Replace(s, old, new) ==
    IF s = <<>> THEN <<>>
    ELSE (IF Head(s) = old THEN new ELSE <<Head(s)>>)
         \o Replace(Tail(s), old, new)

replace_chars == <<"-", "_", " ", "/">>

\* generate_city_aliases: the upper-cased name, then for each separator char1
\* the name contains, char1 replaced by each later separator and by nothing
generate_city_aliases(name) ==
    LET alias0 == Upper(name)
        targets(ind1) ==
            [k \in 1..(4 - ind1) |-> <<replace_chars[ind1 + k]>>] \o <<(<<>>)>>
        of_char(ind1) ==
            IF \E i \in 1..Len(alias0) : alias0[i] = replace_chars[ind1]
            THEN [k \in 1..Len(targets(ind1)) |->
                     Replace(alias0, replace_chars[ind1], targets(ind1)[k])]
            ELSE <<>>
    IN <<alias0>> \o flatten_list([ind1 \in 1..4 |-> of_char(ind1)])

\* a City whose aliases are the canonical name alone
City_unaliased(name, abb) ==
    [name |-> Upper(name), abb |-> abb, aliases |-> <<Upper(name)>>]

\* City.__init__
City(name, abb) ==
    [name |-> Upper(name), abb |-> abb, aliases |-> generate_city_aliases(name)]

\* re.compile('^' + query + '$', re.IGNORECASE).search(s) is not None: the
\* '^' belongs to the first alternative of the query and the '$' to the last
ReFullMatch(pattern, s) ==
    \E a \in 1..Len(Alternatives(pattern)), k \in 0..Len(s) :
        /\ ReMatchAt(Alternatives(pattern)[a], s, k, TRUE)
        /\ a = 1 => k = 0
        /\ a = Len(Alternatives(pattern)) =>
               k + Len(Alternatives(pattern)[a]) = Len(s)

\* City.match that compares with the canonical name only
match_canonical(city, query, aliasing, exact_match) ==
    LET query_aliases == IF aliasing THEN generate_city_aliases(query)
                         ELSE <<query>>
    IN \E q \in 1..Len(query_aliases) :
           IF exact_match
           THEN ReFullMatch(query_aliases[q], city.name)
           ELSE ReSearchAlt(query_aliases[q], city.name, TRUE)

\* City.match
match(city, query, aliasing, exact_match) ==
    LET query_aliases == IF aliasing THEN generate_city_aliases(query)
                         ELSE <<query>>
        city_aliases == IF aliasing THEN city.aliases ELSE <<city.name>>
    IN \E q \in 1..Len(query_aliases) :
           \E x \in 1..Len(city_aliases) :
               IF exact_match
               THEN ReFullMatch(query_aliases[q], city_aliases[x])
               ELSE ReSearchAlt(query_aliases[q], city_aliases[x], TRUE)

Min2(a, b) == IF a <= b THEN a ELSE b

\* one row of the Levenshtein table from the row before it
RECURSIVE EdRow(_, _, _, _)
EdRow(prev, c, b, acc) ==
    LET j == Len(acc)
    IN IF j > Len(b) THEN acc
       ELSE EdRow(prev, c, b,
                  Append(acc, Min2(Min2(prev[j + 1] + 1, acc[j] + 1),
                                   prev[j] + (IF c = b[j] THEN 0 ELSE 1))))

RECURSIVE EdRows(_, _, _, _)
EdRows(a, b, i, prev) ==
    IF i > Len(a) THEN prev[Len(b) + 1]
    ELSE EdRows(a, b, i + 1, EdRow(prev, a[i], b, <<prev[1] + 1>>))

\* editdistance.eval: the Levenshtein distance of two strings
ed_eval(a, b) == EdRows(a, b, 1, [j \in 1..(Len(b) + 1) |-> j - 1])

RECURSIVE MinFrom(_, _, _)
MinFrom(l, i, m) ==
    IF i > Len(l) THEN m ELSE MinFrom(l, i + 1, Min2(m, l[i]))

\* min() of a non-empty list of numbers
MinOf(l) == MinFrom(l, 2, l[1])

RECURSIVE MaxFrom(_, _, _)
MaxFrom(l, i, m) ==
    IF i > Len(l) THEN m ELSE MaxFrom(l, i + 1, IF l[i] > m THEN l[i] ELSE m)

\* max() of a non-empty list of numbers
MaxOf(l) == MaxFrom(l, 2, l[1])

\* [ed.eval(x, query) for x in lookup_vals], from position i on
RECURSIVE edistances(_, _, _)
edistances(lookup_vals, query, i) ==
    IF i > Len(lookup_vals) THEN <<>>
    ELSE <<ed_eval(lookup_vals[i], query)>> \o edistances(lookup_vals, query, i + 1)

\* City.ematch
ematch(city, query, aliasing) ==
    MinOf(edistances(IF aliasing THEN city.aliases ELSE <<city.name>>, query, 1))

\* CityList.search that never splits the query
search_unsplit(query, split, aliasing, exact_match) ==
    SelectIdx(city_list,
              {ind \in 1..Len(city_list) :
                   match(city_list[ind], query, aliasing, exact_match)},
              1)

\* CityList.search: for each kept part of the query in turn, the cities that
\* match it, in directory order
search(query, split, aliasing, exact_match) ==
    LET parts == Split(query, "/")
        query_list ==
            IF split
            THEN SelectIdx(parts, {i \in 1..Len(parts) : Len(parts[i]) > 2}, 1)
            ELSE <<query>>
        hits(q) ==
            SelectIdx(city_list,
                      {ind \in 1..Len(city_list) :
                           match(city_list[ind], q, aliasing, exact_match)},
                      1)
    IN flatten_list([k \in 1..Len(query_list) |-> hits(query_list[k])])

\* [city.ematch(query, aliasing) for city in cities], from position c on
RECURSIVE city_edistances(_, _, _, _)
city_edistances(cities, query, aliasing, c) ==
    IF c > Len(cities) THEN <<>>
    ELSE <<ematch(cities[c], query, aliasing)>>
         \o city_edistances(cities, query, aliasing, c + 1)

\* [cities[x] for x in np.argwhere(dists == min_edist)], from position x on
RECURSIVE cities_at(_, _, _, _)
cities_at(cities, dists, min_edist, x) ==
    IF x > Len(cities) THEN <<>>
    ELSE (IF dists[x] = min_edist THEN <<cities[x]>> ELSE <<>>)
         \o cities_at(cities, dists, min_edist, x + 1)

\* CityList.esearch that also takes a minimum of exactly len(query)/2
esearch_result_lax(cities, dists, min_edist, query) ==
    IF 2 * min_edist <= Len(query)
    THEN <<cities_at(cities, dists, min_edist, 1), 2 * min_edist>>
    ELSE <<(<<>>), Len(query)>>

\* CityList.esearch, lines 184-192, from the distances and their minimum
esearch_result(cities, dists, min_edist, query) ==
    IF 2 * min_edist < Len(query)
    THEN <<cities_at(cities, dists, min_edist, 1), 2 * min_edist>>
    ELSE <<(<<>>), Len(query)>>

esearch_from(cities, dists, query) ==
    esearch_result(cities, dists, MinOf(dists), query)

\* CityList.esearch: the cities at the least edit distance and that distance
\* if it is below len(query)/2, else no city and len(query)/2.  The distance
\* is returned doubled, so that len(query)/2 stays an integer.
esearch(query, aliasing) ==
    esearch_from(city_list, city_edistances(city_list, query, aliasing, 1), query)

\* the part of city_map (CityList.py) the model keeps, in its order
city_map == <<
    <<(<<"G","I">>), <<"G","I","F","U">>>>,
    <<(<<"G","P">>), <<"G","I","F","U","-","C">>>>,
    <<(<<"J","Z">>), <<"I","O","W","A">>>>,
    <<(<<"Q","R">>), <<"G","I","F","U","C">>>> >>

\* CityList.__init__
CityList == [k \in 1..Len(city_map) |-> City(city_map[k][2], city_map[k][1])]

-----------------------------------------------------------------------------
(* AntigenicDatabase.py: Entry                                             *)

KeyId == <<"i", "d">>
KeyLong == <<"l", "o", "n", "g">>

\* str.replace(old, new) for a non-empty old: the occurrences from left to
\* right, not overlapping
RECURSIVE StrReplace(_, _, _)
StrReplace(s, old, new) ==
    IF Len(s) < Len(old) THEN s
    ELSE IF Slice(s, 1, Len(old)) = old
         THEN new \o StrReplace(Slice(s, Len(old) + 1, Len(s)), old, new)
         ELSE <<Head(s)>> \o StrReplace(Tail(s), old, new)

\* ''.join([x + '/' for x in split_name])[0:-1]
RECURSIVE JoinSlash(_)
JoinSlash(split_name) ==
    IF Len(split_name) = 1 THEN Head(split_name)
    ELSE Head(split_name) \o <<"/">> \o JoinSlash(Tail(split_name))

\* [ed.eval(name, city_name) for name in split_name], from position i on
RECURSIVE edists(_, _, _)
edists(split_name, city_name, i) ==
    IF i > Len(split_name) THEN <<>>
    ELSE <<ed_eval(split_name[i], city_name)>> \o edists(split_name, city_name, i + 1)

\* np.argmin: the first position that holds the least value
argmin_from(l, least) ==
    CHOOSE i \in 1..Len(l) : l[i] = least /\ \A j \in 1..(i - 1) : l[j] # least

argmin(l) == argmin_from(l, MinOf(l))

\* _find_short_name, lines 67-73: the part nearest to the city's name gives
\* way to the abbreviation
nearest_replaced(split_name, city) ==
    JoinSlash([split_name EXCEPT ![argmin(edists(split_name, city.name, 1))] = city.abb])

\* a turn of the loop that never looks for the city's name in the short name
short_name_step_nearest(short_name, city) ==
    nearest_replaced(Split(short_name, "/"), city)

\* _find_short_name, lines 64-73: one turn of the loop
short_name_step(short_name, city) ==
    IF Contains(short_name, city.name)
    THEN StrReplace(short_name, city.name, city.abb)
    ELSE nearest_replaced(Split(short_name, "/"), city)

\* _find_short_name, lines 63-74: the loop over the cities in the order given
RECURSIVE short_name_loop(_, _, _)
short_name_loop(short_name, cities, i) ==
    IF i > Len(cities) THEN short_name
    ELSE short_name_loop(short_name_step(short_name, cities[i]), cities, i + 1)

\* the lists that hold each element of the set S once
Orders(S) ==
    {o \in [1..Cardinality(S) -> S] : \A x \in S : \E i \in 1..Cardinality(S) : o[i] = x}

\* Entry._find_short_name: the short names it may return.  list(set(...)) at
\* line 60 lists the cities found in an order that the objects' addresses
\* decide, so every order is possible
find_short_name(long) ==
    {short_name_loop(long, o, 1) : o \in Orders(Range(search(long, TRUE, FALSE, FALSE)))}

\* Entry.__init__, for a record with string values under 'id' and 'long',
\* and the short name found for it
Entry(data, short) ==
    [data |-> data,
     id |-> Get(data, KeyId).v,
     long |-> Get(data, KeyLong).v,
     properties |-> PyDict(SelectIdx(data.v,
                                     {i \in 1..Len(data.v) :
                                          data.v[i][1] \notin {KeyId, KeyLong}},
                                     1)),
     short |-> short]

\* [Entry(x) for x in data]: the lists of entries it may build
RECURSIVE EntriesOf(_)
EntriesOf(data) ==
    IF data = <<>> THEN {<<>>}
    ELSE {<<Entry(Head(data), short)>> \o rest :
             short \in find_short_name(Get(Head(data), KeyLong).v),
             rest \in EntriesOf(Tail(data))}

\* Entry._deep_search
deep_search(entry, search_value, ignore_case, regexp) ==
    dict_search(entry.data, search_value, ignore_case, regexp)

\* the single-letter amino-acid codes of mut_pattern
AminoAcids == {"A","R","N","D","C","E","Q","G","H","I","L","K","M","F","P",
               "S","T","W","Y","V"}

\* the length of the match of [AA]\d{2,3}[AA] that starts at s[i]; 0 if none
MutLenAt(s, i) ==
    LET digit(k) == k <= Len(s) /\ s[k] \in Digits
        amino(k) == k <= Len(s) /\ s[k] \in AminoAcids
    IN IF ~amino(i) \/ ~digit(i + 1) \/ ~digit(i + 2) THEN 0
       ELSE IF digit(i + 3) /\ amino(i + 4) THEN 5
       ELSE IF amino(i + 3) THEN 4
       ELSE 0

\* re.findall(mut_pattern, s): the matches from left to right, not overlapping
RECURSIVE FindMuts(_, _)
FindMuts(s, i) ==
    IF i > Len(s) THEN <<>>
    ELSE IF MutLenAt(s, i) > 0
         THEN <<Slice(s, i, i + MutLenAt(s, i) - 1)>>
              \o FindMuts(s, i + MutLenAt(s, i))
         ELSE FindMuts(s, i + 1)

\* [z.split('-') for z in [x.split('_') for x in s.split('/')]], flattened
SplitAll(s) ==
    LET by_slash == Split(s, "/")
        by_under == flatten_list([k \in 1..Len(by_slash) |->
                                     Split(by_slash[k], "_")])
    IN flatten_list([k \in 1..Len(by_under) |-> Split(by_under[k], "-")])

GYRF == <<"G","Y","R","F">>
GYRFALCON == <<"G","Y","R","F","A","L","C","O","N">>
WASHINGTON == <<"W","A","S","H","I","N","G","T","O","N">>

\* _alias_search, lines 129-143: per part, the first city the directory finds
\* for it, or the GYRF pair, which ends the loop
RECURSIVE CityLoop(_, _, _)
CityLoop(search_names, k, st) ==
    IF k > Len(search_names) THEN st
    ELSE LET found_cities == search(search_names[k], FALSE, FALSE, FALSE)
         IN IF Len(found_cities) > 0
            THEN CityLoop(search_names, k + 1,
                          [names |-> st.names \o <<found_cities[1].name>>,
                           city_found |-> TRUE])
            ELSE IF Contains(search_names[k], GYRF)
                 THEN [names |-> st.names \o <<GYRFALCON, WASHINGTON>>,
                       city_found |-> TRUE]
                 ELSE CityLoop(search_names, k + 1, st)

\* _alias_search, lines 147-155: the cities of the first part whose least
\* edit distance is at most a quarter of its length; dividing by the length
\* of an empty part raises ZeroDivisionError
RECURSIVE EditLoop(_, _)
EditLoop(search_names, k) ==
    IF k > Len(search_names) THEN [names |-> <<>>, raised |-> FALSE]
    ELSE IF Len(search_names[k]) = 0 THEN [names |-> <<>>, raised |-> TRUE]
    ELSE LET found == esearch(search_names[k], TRUE)
         IN IF 2 * found[2] <= Len(search_names[k])
            THEN [names |-> [x \in 1..Len(found[1]) |-> found[1][x].name],
                  raised |-> FALSE]
            ELSE EditLoop(search_names, k + 1)

\* _alias_search, lines 120-160: the place names the refined search adds
found_city_names(search_names) ==
    IF \E k \in 1..Len(search_names) :
           Len(search(search_names[k], FALSE, FALSE, FALSE)) > 0
    THEN [names |-> <<>>, raised |-> FALSE]
    ELSE LET st == CityLoop(search_names, 1,
                            [names |-> <<>>, city_found |-> FALSE])
         IN IF st.city_found THEN [names |-> st.names, raised |-> FALSE]
            ELSE EditLoop(search_names, 1)

\* _alias_search, lines 162-174: the names that pass the noise filter and are
\* found in the record
matches(entry, search_names, ignore_case, regexp) ==
    LET counts(name) ==
            /\ \/ Len(name) > 4
               \/ Count(name, Digits) > 3
               \/ Count(name, Letters) > 3
            /\ deep_search(entry, name, ignore_case, regexp)
    IN Cardinality({k \in 1..Len(search_names) : counts(search_names[k])})

\* _alias_search without lines 110-118
alias_search_ungated(entry, query, ignore_case, refined, ignore_mutations, regexp) ==
    IF ~refined
    THEN matches(entry, Split(query, "/"), ignore_case, regexp)
    ELSE matches(entry, SplitAll(query) \o found_city_names(Split(query, "/")).names,
                 ignore_case, regexp)

\* Entry._alias_search; -1 stands for the ZeroDivisionError it may raise
alias_search(entry, query, ignore_case, refined, ignore_mutations, regexp) ==
    LET search_names == Split(query, "/")
        long_split == SplitAll(entry.long)
        muts1 == flatten_list([k \in 1..Len(search_names) |->
                                  FindMuts(search_names[k], 1)])
        muts2 == flatten_list([k \in 1..Len(long_split) |->
                                  FindMuts(long_split[k], 1)])
        found == found_city_names(search_names)
    IN IF ~ignore_mutations /\ Range(muts1) # Range(muts2) THEN 0
       ELSE IF ~refined
            THEN matches(entry, search_names, ignore_case, regexp)
            ELSE IF found.raised THEN -1
                 ELSE matches(entry, SplitAll(query) \o found.names,
                              ignore_case, regexp)

-----------------------------------------------------------------------------
(* The inputs of the tools                                                 *)

\* the largest number of nodes (scalars, lists, dicts) of a structure
MaxNodes == 4
\* the largest number of nodes of the two operands of deep_eq together
MaxPairNodes == 5

ToolKeys == {<<"A">>, <<"a", "b">>}
ToolAtoms == {PyStr(<<"a">>), PyStr(<<"A", "b">>), PyNum(1)}
ToolTargets == {<<"a">>, <<"A">>, <<"a", "b">>}

RECURSIVE ValsOfSize(_), SeqsOfSize(_), ItemsOfSize(_, _)
\* the values of exactly n nodes
ValsOfSize(n) ==
    IF n = 1 THEN ToolAtoms \cup {PyList(<<>>), PyDict(<<>>)}
    ELSE {PyList(l) : l \in SeqsOfSize(n - 1)}
         \cup {PyDict(d) : d \in ItemsOfSize(n - 1, ToolKeys)}
\* the lists whose elements have n nodes together
SeqsOfSize(n) ==
    IF n = 0 THEN {<<>>}
    ELSE UNION {{<<x>> \o r : x \in ValsOfSize(m), r \in SeqsOfSize(n - m)} :
                m \in 1..n}
\* the (key, value) lists over distinct keys whose values have n nodes together
ItemsOfSize(n, avail) ==
    IF n = 0 THEN {<<>>}
    ELSE UNION {{<<(<<k, x>>)>> \o r :
                    x \in ValsOfSize(m), r \in ItemsOfSize(n - m, avail \ {k})} :
                <<k, m>> \in avail \X (1..n)}

ToolVals == UNION {ValsOfSize(n) : n \in 1..MaxNodes}
ToolDicts == {x \in ToolVals : x.t = "dict"}
ToolPairs ==
    UNION {ValsOfSize(n) \X ValsOfSize(m) :
           <<n, m>> \in {p \in (1..MaxPairNodes) \X (1..MaxPairNodes) :
                            p[1] + p[2] <= MaxPairNodes}}

\* 'ab' and ['a', 'b'], in both orders
S_ab == PyStr(<<"a", "b">>)
L_ab == PyList(<<PyStr(<<"a">>), PyStr(<<"b">>)>>)
StringPairs == {<<S_ab, L_ab>>, <<L_ab, S_ab>>}

-----------------------------------------------------------------------------
(* The tools, called one at a time                                         *)

InitTools ==
    /\ pc = "idle" /\ op = "none" /\ args = <<>> /\ ret = <<>>
    /\ city_list = <<>> /\ entries = <<>>
    /\ ids = <<>> /\ longs = <<>> /\ stdout = <<>>
    /\ I = <<>> /\ max_hits = 0 /\ trace = <<>>

Frame == UNCHANGED <<city_list, entries, ids, longs, stdout, I, max_hits, trace>>

CallDictSearch ==
    /\ pc = "idle"
    /\ \E d \in ToolDicts, s \in ToolTargets, ic \in BOOLEAN, re \in BOOLEAN :
          /\ args' = [dictionary |-> d, search_value |-> s,
                      ignore_case |-> ic, regexp |-> re]
          /\ ret' = dict_search(d, s, ic, re)
    /\ op' = "dict_search" /\ pc' = "done"
    /\ Frame

CallDictKeySearch ==
    /\ pc = "idle"
    /\ \E d \in ToolDicts, s \in ToolTargets, ic \in BOOLEAN, re \in BOOLEAN :
          /\ args' = [dictionary |-> d, search_key |-> s,
                      ignore_case |-> ic, regexp |-> re]
          /\ ret' = dict_key_search(d, s, ic, re)
    /\ op' = "dict_key_search" /\ pc' = "done"
    /\ Frame

\* deep_eq(v1, v2); the reverse call is made on the same operands next to it,
\* to compare the two
CallDeepEq ==
    /\ pc = "idle"
    /\ \E p \in ToolPairs \cup StringPairs :
          /\ args' = [v1 |-> p[1], v2 |-> p[2]]
          /\ ret' = [fwd |-> deep_eq(p[1], p[2]), bwd |-> deep_eq(p[2], p[1])]
    /\ op' = "deep_eq" /\ pc' = "done"
    /\ Frame

\* deep_eq(x, x)
CallDeepEqSelf ==
    /\ pc = "idle"
    /\ \E x \in ToolVals :
          /\ args' = [v1 |-> x, v2 |-> x]
          /\ ret' = [fwd |-> deep_eq(x, x), bwd |-> deep_eq(x, x)]
    /\ op' = "deep_eq_self" /\ pc' = "done"
    /\ Frame

\* the characters of the titers, and the titers: every string of at most
\* MaxTiterLen of them, and two numbers
TiterChars == {"0", "1", "4", ".", "<", ">", "/", "A"}
Titers ==
    {PyStr(titer) : titer \in StringsUpTo(TiterChars, MaxTiterLen)}
    \cup {PyNum(0), PyNum(20)}

\* convert_titer(titer)
CallConvertTiter ==
    /\ pc = "idle"
    /\ \E titer \in Titers :
          /\ args' = [titer |-> titer]
          /\ ret' = convert_titer(titer)
    /\ op' = "convert_titer" /\ pc' = "done"
    /\ Frame

\* the caller takes the result
Return ==
    /\ pc = "done"
    /\ pc' = "idle" /\ op' = "none" /\ args' = <<>> /\ ret' = <<>>
    /\ Frame

NextTools ==
    \/ CallDictSearch
    \/ CallDictKeySearch
    \/ CallDeepEq
    \/ CallDeepEqSelf
    \/ CallConvertTiter
    \/ Return

SpecTools == InitTools /\ [][NextTools]_vars

-----------------------------------------------------------------------------
(* CityList.py: the Place Directory, and the inputs of its operations      *)

\* a second part of city_map, in its order: names with separators and the
\* names of the tests
city_map_hk == <<
    <<(<<"H","K">>), <<"H","O","N","G","K","O","N","G">>>>,
    <<(<<"H","P">>), <<"H","O","N","G","-","K","O","N","G">>>>,
    <<(<<"J","Z">>), <<"I","O","W","A">>>>,
    <<(<<"U","A">>), <<"U",".","K",".">>>>,
    <<(<<"U","S">>), <<"U","S","S","R","/","R","U","S","S","I","A">>>> >>

\* CityList.__init__ over that part
CityListHK == [k \in 1..Len(city_map_hk) |-> City(city_map_hk[k][2], city_map_hk[k][1])]

\* the characters of the names given to generate_city_aliases
AliasChars == {"a", "B", "-", "_", " ", "/"}
\* the longest name given to generate_city_aliases
MaxNameLen == 3

HONG_KONG == <<"H","O","N","G","_","K","O","N","G">>
HONGKONG == <<"H","O","N","G","K","O","N","G">>

AliasNames == StringsUpTo(AliasChars, MaxNameLen) \cup {HONG_KONG}

\* the queries put to the places of a directory: every alias of every place,
\* and the queries of the tests
ExtraQueries == {
    <<"H","O","N","G","K">>,
    <<"K","I","N","G","K","O","N","G">>,
    <<"H","O","N","K"," ","K","O","N","G">>,
    <<"h","o","n","g","k","o","n","g">>,
    <<"H","O","N","G","K","O","N","G","/","8","9">>,
    <<"8","9","/","H","K">>,
    <<"H","O","N","G","K","O","N","G","/","H","O","N","G","K","O","N","G">>,
    <<"H","O","N","G","_","K","O","N","G">>,
    <<"I","O","W","B">>,
    <<"I","O","X","Y">>,
    <<"H","O","N","G","|","X">>,
    <<"X","|","K","O","N","G">>,
    <<"X","|","Y">> }

CityQueries(cities) ==
    UNION {Range(cities[c].aliases) : c \in 1..Len(cities)} \cup ExtraQueries

InitCities ==
    /\ pc = "idle" /\ op = "none" /\ args = <<>> /\ ret = <<>>
    /\ city_list = CityListHK /\ entries = <<>>
    /\ ids = <<>> /\ longs = <<>> /\ stdout = <<>>
    /\ I = <<>> /\ max_hits = 0 /\ trace = <<>>

\* generate_city_aliases(name)
CallAliases ==
    /\ pc = "idle"
    /\ \E name \in AliasNames :
          /\ args' = [name |-> name]
          /\ ret' = generate_city_aliases(name)
    /\ op' = "generate_city_aliases" /\ pc' = "done"
    /\ Frame

\* city_list.cities[city].match(query, aliasing, exact_match)
CallMatch ==
    /\ pc = "idle"
    /\ \E city \in 1..Len(city_list), query \in CityQueries(city_list),
          aliasing \in BOOLEAN, exact_match \in BOOLEAN :
          /\ args' = [city |-> city, query |-> query, aliasing |-> aliasing,
                      exact_match |-> exact_match]
          /\ ret' = match(city_list[city], query, aliasing, exact_match)
    /\ op' = "match" /\ pc' = "done"
    /\ Frame

\* city_list.cities[city].ematch(query, aliasing)
CallEmatch ==
    /\ pc = "idle"
    /\ \E city \in 1..Len(city_list), query \in CityQueries(city_list),
          aliasing \in BOOLEAN :
          /\ args' = [city |-> city, query |-> query, aliasing |-> aliasing]
          /\ ret' = ematch(city_list[city], query, aliasing)
    /\ op' = "ematch" /\ pc' = "done"
    /\ Frame

\* city_list.search(query, split, aliasing, exact_match)
CallSearch ==
    /\ pc = "idle"
    /\ \E query \in CityQueries(city_list), split \in BOOLEAN,
          aliasing \in BOOLEAN, exact_match \in BOOLEAN :
          /\ args' = [query |-> query, split |-> split, aliasing |-> aliasing,
                      exact_match |-> exact_match]
          /\ ret' = search(query, split, aliasing, exact_match)
    /\ op' = "search" /\ pc' = "done"
    /\ Frame

\* city_list.esearch(query, aliasing)
CallEsearch ==
    /\ pc = "idle"
    /\ \E query \in CityQueries(city_list), aliasing \in BOOLEAN :
          /\ args' = [query |-> query, aliasing |-> aliasing]
          /\ ret' = esearch(query, aliasing)
    /\ op' = "esearch" /\ pc' = "done"
    /\ Frame

NextCities ==
    \/ CallAliases
    \/ CallMatch
    \/ CallEmatch
    \/ CallSearch
    \/ CallEsearch
    \/ Return

SpecCities == InitCities /\ [][NextCities]_vars

-----------------------------------------------------------------------------
(* AntigenicDatabase.py: Dataset, and the inputs of its operations         *)

\* the largest number of records of a Dataset
MaxEntries == 2

S_GIFU == <<"G","I","F","U">>
S_GIFV == <<"G","I","F","V">>
S_IOWA == <<"I","O","W","A">>
S_2003 == <<"2","0","0","3">>
S_H27Y == <<"H","2","7","Y">>
Slash == <<"/">>

\* raw records, as read from the json files
Record(id, long, more) ==
    PyDict(<<(<<KeyId, PyStr(id)>>), <<KeyLong, PyStr(long)>>>> \o more)

RecordPool == {
    Record(<<"A","1">>, S_GIFU \o Slash \o S_2003, <<>>),
    Record(<<"A","1","2">>, S_GIFU \o Slash \o S_2003 \o S_H27Y, <<>>),
    Record(<<"B","1">>, S_IOWA, <<(<<(<<"y">>), PyList(<<PyStr(S_2003)>>)>>)>>),
    Record(<<"B",".">>, GYRFALCON \o Slash \o S_2003, <<>>) }

RECURSIVE SeqsUpTo(_, _)
\* the lists of at most n elements of S
SeqsUpTo(S, n) ==
    IF n = 0 THEN {<<>>}
    ELSE {<<>>} \cup {<<x>> \o r : x \in S, r \in SeqsUpTo(S, n - 1)}

\* the parts a query is made of, and the queries: one part, or two parts
\* joined by '/' or '-'
QueryParts == {S_GIFU, S_GIFV, S_2003, S_2003 \o S_H27Y, S_IOWA, GYRF}
Queries ==
    QueryParts \cup {a \o <<sep>> \o b :
                        a \in QueryParts, b \in QueryParts, sep \in {"/", "-"}}

\* the values looked up with get_entry and deep_search
LookupValues ==
    {Get(r, KeyId).v : r \in RecordPool} \cup {Get(r, KeyLong).v : r \in RecordPool}
    \cup {<<"A">>, S_2003, <<"A","1","2","3">>}

\* [self.entries[x] for x in idx], with the positions idx kept beside it
Returned(idx) ==
    [raised |-> "none", idx |-> idx, value |-> [k \in 1..Len(idx) |-> entries[idx[k]]]]

\* [index for index in range(n) if index in keep]: the positions, ascending
Positions(n, keep) == SelectIdx([k \in 1..n |-> k], keep, 1)

\* get_entry that looks the value up in the long names whatever the method
get_entry_longs(search_value, search_method) ==
    Returned(Positions(Len(entries),
                       {index \in 1..Len(entries) :
                            ReSearch(entries[index].long, search_value, FALSE)}))

\* Dataset.get_entry, lines 256-258, on the list looked up; a pattern that
\* does not compile raises re.error
get_entry_in(lookup_list, search_value) ==
    IF \E index \in 1..Len(lookup_list) : ~ReValid(lookup_list[index])
    THEN [raised |-> "re.error", idx |-> <<>>, value |-> <<>>]
    ELSE Returned(Positions(Len(lookup_list),
                            {index \in 1..Len(lookup_list) :
                                 ReSearch(lookup_list[index], search_value, FALSE)}))

\* Dataset.get_entry
get_entry(search_value, search_method) ==
    get_entry_in(IF search_method = "id" THEN ids ELSE longs, search_value)

-----------------------------------------------------------------------------
(* AntigenicDatabase.py: construction of a Dataset                         *)

\* None
PyNone == [t |-> "None", v |-> <<>>]

\* key in d
HasKey(d, key) == \E i \in 1..Len(d.v) : d.v[i][1] = key

\* {'id':'None', 'long':'None'}, appended for the id ''
NoneRecord == Record(<<"N","o","n","e">>, <<"N","o","n","e">>, <<>>)

\* the positions of I = [x['id'] == id1 for x in data] that hold True
IdIs(data, id1) == {k \in 1..Len(data) : PyEq(Get(data[k], KeyId), id1)}

\* the two warnings of Dataset.__init__
MoreThanOne(id1) == [msg |-> "more than one data", id |-> id1.v]
NoData(id1) == [msg |-> "no data", id |-> id1.v]

\* the outcome of a constructor step: the exception raised, the records kept
\* and the lines printed
Outcome(raised, data, printed) ==
    [raised |-> raised, data |-> data, printed |-> printed]

\* a loop over id_subset that leaves out the records without a long name
subset_loop_lenient(data, id_subset, i, self_data, printed) ==
    Outcome("none",
            SelectIdx(data, {k \in 1..Len(data) :
                                /\ HasKey(data[k], KeyLong)
                                /\ \E j \in 1..Len(id_subset) :
                                      PyEq(Get(data[k], KeyId), id_subset[j])}, 1),
            printed)

RECURSIVE subset_loop_first(_, _, _, _, _)
\* a loop over id_subset that keeps the first record of each id only
subset_loop_first(data, id_subset, i, self_data, printed) ==
    IF i > Len(id_subset) THEN Outcome("none", self_data, printed)
    ELSE subset_loop_first(data, id_subset, i + 1,
                           self_data \o SelectIdx(data, {k \in IdIs(data, id_subset[i]) :
                                                            \A j \in IdIs(data, id_subset[i]) : k <= j}, 1),
                           printed)

RECURSIVE subset_loop(_, _, _, _, _)
\* Dataset.__init__, lines 231-241: the loop over id_subset from its i-th id
\* on, self_data and printed being what the ids before it have gathered
subset_loop(data, id_subset, i, self_data, printed) ==
    IF i > Len(id_subset) THEN Outcome("none", self_data, printed)
    ELSE IF PyEq(id_subset[i], PyStr(<<>>))
    THEN subset_loop(data, id_subset, i + 1,
                     Append(self_data, NoneRecord), printed)
    ELSE IF Cardinality(IdIs(data, id_subset[i])) >= 1
    THEN subset_loop(data, id_subset, i + 1,
                     self_data \o SelectIdx(data, IdIs(data, id_subset[i]), 1),
                     IF Cardinality(IdIs(data, id_subset[i])) > 1
                     THEN Append(printed, MoreThanOne(id_subset[i]))
                     ELSE printed)
    ELSE subset_loop(data, id_subset, i + 1, self_data,
                     Append(printed, NoData(id_subset[i])))

\* Dataset.__init__: the assertions on the input, then the records kept
dataset_init(data, id_subset) ==
    IF data.t # "list" THEN Outcome("AssertionError", <<>>, <<>>)
    ELSE IF \E k \in 1..Len(data.v) : data.v[k].t # "dict"
    THEN Outcome("AssertionError", <<>>, <<>>)
    ELSE IF \E k \in 1..Len(data.v) : ~HasKey(data.v[k], KeyId)
    THEN Outcome("AssertionError", <<>>, <<>>)
    ELSE IF id_subset = PyNone THEN Outcome("none", data.v, <<>>)
    ELSE IF id_subset.t # "list" THEN Outcome("AssertionError", <<>>, <<>>)
    ELSE subset_loop(data.v, id_subset.v, 1, <<>>, <<>>)

\* the assertion of Entry.__init__ that is left once Dataset.__init__ has
\* passed: every record kept has the key long
entries_buildable(self_data) ==
    \A k \in 1..Len(self_data) : HasKey(self_data[k], KeyLong)

\* len(l) != len(set(l))
HasDuplicates(l) == \E j, k \in 1..Len(l) : j < k /\ l[j] = l[k]

\* general_health_check, lines 304-311: what is printed for one id
id_report(entry_id, found) ==
    IF Len(found) # 1
    THEN <<[msg |-> "encountered", id |-> entry_id, times |-> Len(found)]>>
    ELSE <<>>

RECURSIVE id_reports(_)
\* general_health_check, lines 303-311, from the k-th id on
id_reports(k) ==
    IF k > Len(ids) THEN <<>>
    ELSE id_report(ids[k], get_entry(ids[k], "id").idx) \o id_reports(k + 1)

\* t.deep_eq on two Entry objects: neither a str nor a dict nor iterable, so
\* operator.eq, which for an Entry is identity; x1, x2 are positions
entry_deep_eq(x1, x2) == x1 = x2

RECURSIVE pair_reports(_, _, _, _)
\* general_health_check, lines 322-328: the pairs ind1 < ind2 of the entries
\* found, from the pair (ind1, ind2) on
pair_reports(entry_long, found, ind1, ind2) ==
    IF ind1 > Len(found) THEN <<>>
    ELSE IF ind2 > Len(found)
    THEN pair_reports(entry_long, found, ind1 + 1, ind1 + 2)
    ELSE (IF entry_deep_eq(found[ind1], found[ind2])
          THEN <<[msg |-> "identical", long |-> entry_long,
                  first |-> found[ind1], second |-> found[ind2]]>>
          ELSE <<>>)
         \o pair_reports(entry_long, found, ind1, ind2 + 1)

\* general_health_check, lines 319-328: what is printed for one long name
long_report(entry_long, found) ==
    IF Len(found) # 1 THEN pair_reports(entry_long, found, 1, 2) ELSE <<>>

RECURSIVE long_reports(_)
\* general_health_check, lines 318-328, from the k-th long name on
long_reports(k) ==
    IF k > Len(longs) THEN <<>>
    ELSE long_report(longs[k], get_entry(longs[k], "long").idx)
         \o long_reports(k + 1)

\* get_entry raises on the list looked up
Uncompilable(lookup_list) ==
    \E index \in 1..Len(lookup_list) : ~ReValid(lookup_list[index])

\* Dataset.general_health_check on self.ids and self.longs, which are lists
\* of str: the exception raised and the lines printed
general_health_check ==
    IF HasDuplicates(ids) /\ Uncompilable(ids)
    THEN Outcome("re.error", <<>>, <<>>)
    ELSE IF HasDuplicates(longs) /\ Uncompilable(longs)
    THEN Outcome("re.error", <<>>,
                 IF HasDuplicates(ids) THEN id_reports(1) ELSE <<>>)
    ELSE Outcome("none", <<>>,
                 (IF HasDuplicates(ids) THEN id_reports(1) ELSE <<>>)
                 \o (IF HasDuplicates(longs) THEN long_reports(1) ELSE <<>>))

-----------------------------------------------------------------------------
(* The operations of a Dataset, called one at a time                       *)

\* AntigenDataset.__init__ / SerumDataset.__init__ without id_subset
Init ==
    /\ pc = "idle" /\ op = "none" /\ args = <<>> /\ ret = <<>>
    /\ city_list = CityList
    /\ \E data \in SeqsUpTo(RecordPool, MaxEntries) : entries \in EntriesOf(data)
    /\ ids = [k \in 1..Len(entries) |-> entries[k].id]
    /\ longs = [k \in 1..Len(entries) |-> entries[k].long]
    /\ stdout = general_health_check.printed
    /\ I = <<>> /\ max_hits = 0 /\ trace = <<>>

GetEntry ==
    /\ pc = "idle"
    /\ \E search_value \in LookupValues, search_method \in {"id", "long"} :
          /\ args' = [search_value |-> search_value,
                      search_method |-> search_method]
          /\ ret' = get_entry(search_value, search_method)
    /\ op' = "get_entry" /\ pc' = "done"
    /\ Frame

\* Dataset.deep_search
DeepSearch ==
    /\ pc = "idle"
    /\ \E search_value \in LookupValues, ignore_case \in BOOLEAN :
          /\ args' = [search_value |-> search_value, ignore_case |-> ignore_case]
          /\ ret' = Returned(Positions(Len(entries),
                         {index \in 1..Len(entries) :
                              deep_search(entries[index], search_value,
                                          ignore_case, FALSE)}))
    /\ op' = "deep_search" /\ pc' = "done"
    /\ Frame

\* the score array of one pass of aliased_search
Scores(search_name, ignore_case, refined, regexp) ==
    [k \in 1..Len(entries) |->
        alias_search(entries[k], search_name, ignore_case, refined, FALSE, regexp)]

\* aliased_search, lines 272-276, with a maximum that takes an empty array
\* for one without hits
PlainPass_lenient ==
    /\ pc = "idle"
    /\ \E search_name \in Queries, ignore_case \in BOOLEAN, regexp \in BOOLEAN :
          /\ args' = [search_name |-> search_name, ignore_case |-> ignore_case,
                      regexp |-> regexp]
          /\ I' = Scores(search_name, ignore_case, FALSE, regexp)
    /\ op' = "aliased_search"
    /\ IF entries = <<>>
       THEN /\ ret' = [raised |-> "none", idx |-> <<>>, value |-> <<>>]
            /\ pc' = "done"
            /\ UNCHANGED <<max_hits, trace>>
       ELSE /\ max_hits' = MaxOf(I')
            /\ trace' = <<[refined |-> FALSE, I |-> I']>>
            /\ ret' = <<>>
            /\ pc' = "plain_done"
    /\ UNCHANGED <<city_list, entries, ids, longs, stdout>>

\* aliased_search, lines 272-276: the plain pass and its maximum; np.max of
\* an empty array raises ValueError
PlainPass ==
    /\ pc = "idle"
    /\ \E search_name \in Queries, ignore_case \in BOOLEAN, regexp \in BOOLEAN :
          /\ args' = [search_name |-> search_name, ignore_case |-> ignore_case,
                      regexp |-> regexp]
          /\ I' = Scores(search_name, ignore_case, FALSE, regexp)
    /\ op' = "aliased_search"
    /\ IF entries = <<>>
       THEN /\ ret' = [raised |-> "ValueError", idx |-> <<>>, value |-> <<>>]
            /\ pc' = "done"
            /\ UNCHANGED <<max_hits, trace>>
       ELSE /\ max_hits' = MaxOf(I')
            /\ trace' = <<[refined |-> FALSE, I |-> I']>>
            /\ ret' = <<>>
            /\ pc' = "plain_done"
    /\ UNCHANGED <<city_list, entries, ids, longs, stdout>>

\* aliased_search, line 278 (and again line 285): no entry has two hits
below_threshold_lax(hits) == hits < 1

below_threshold(hits) == hits < 2

\* aliased_search, lines 278-281: the refined pass
RefinedPass ==
    /\ pc = "plain_done"
    /\ below_threshold(max_hits)
    /\ I' = Scores(args.search_name, args.ignore_case, TRUE, args.regexp)
    /\ trace' = Append(trace, [refined |-> TRUE, I |-> I'])
    /\ pc' = "scored"
    /\ UNCHANGED <<op, args, ret, city_list, entries, ids, longs, stdout,
                   max_hits>>

\* np.argwhere(scores == hits).flatten(): the positions that hold hits, ascending
argwhere_first(scores, hits) ==
    <<CHOOSE x \in 1..Len(scores) :
          scores[x] = hits /\ \A y \in 1..(x - 1) : scores[y] # hits>>

argwhere(scores, hits) ==
    Positions(Len(scores), {x \in 1..Len(scores) : scores[x] = hits})

\* aliased_search, lines 285-288: the positions of the entries returned
hits_returned_any(scores, hits) == argwhere(scores, hits)

hits_returned(scores, hits) ==
    IF hits < 2 THEN <<>> ELSE argwhere(scores, hits)

\* aliased_search, lines 283-288: the maximum of the scores in use, and the
\* entries that reach it if it is at least 2
SelectHits ==
    /\ \/ pc = "scored"
       \/ pc = "plain_done" /\ ~below_threshold(max_hits)
    /\ max_hits' = MaxOf(I)
    /\ ret' = Returned(hits_returned(I, max_hits'))
    /\ pc' = "done"
    /\ UNCHANGED <<op, args, city_list, entries, ids, longs, stdout, I, trace>>

\* the caller takes the result
ReturnToCaller ==
    /\ pc = "done"
    /\ pc' = "idle" /\ op' = "none" /\ args' = <<>> /\ ret' = <<>>
    /\ I' = <<>> /\ max_hits' = 0 /\ trace' = <<>>
    /\ UNCHANGED <<city_list, entries, ids, longs, stdout>>

\* the operations of the Dataset and, beside them, those of the Place
\* Directory it was built with
Next ==
    \/ GetEntry
    \/ DeepSearch
    \/ PlainPass
    \/ RefinedPass
    \/ SelectHits
    \/ CallMatch
    \/ CallEmatch
    \/ CallSearch
    \/ CallEsearch
    \/ ReturnToCaller

Spec == Init /\ [][Next]_vars

-----------------------------------------------------------------------------
(* The construction of a Dataset, step by step                             *)

\* the largest number of elements of the input list, and of ids of id_subset
MaxRecords == 2
MaxSubset == 3

S_A1 == <<"A","1">>
S_B1 == <<"B","1">>
S_C1 == <<"C","1">>
S_ZZ == <<"Z","Z">>
S_APar == <<"A","(">>

\* the elements of the input list: records with string id and long name, two
\* of them with the same id and two with the same long name, one whose id is
\* not a pattern that compiles, a record without long name, one without id,
\* and an element that is not a mapping
WellFormed == {
    Record(S_A1, S_GIFU \o Slash \o S_2003, <<>>),
    Record(S_A1, S_IOWA, <<>>),
    Record(S_B1, S_GIFU \o Slash \o S_2003, <<>>),
    Record(S_APar, S_IOWA, <<>>) }
NoLong == PyDict(<<(<<KeyId, PyStr(S_C1)>>)>>)
NoId == PyDict(<<(<<KeyLong, PyStr(S_IOWA)>>)>>)
BuildElements == WellFormed \cup {NoLong, NoId, PyStr(<<"x">>)}

\* the inputs: lists, and two values that are not lists
BuildData ==
    {PyList(l) : l \in SeqsUpTo(BuildElements, MaxRecords)}
    \cup {NoLong, PyStr(S_A1)}

\* id_subset: None, a list of ids, or a value that is not a list
SubsetIds == {PyStr(x) : x \in {S_A1, S_B1, S_C1, S_ZZ, S_APar, <<>>}}
BuildSubsets ==
    {PyNone, PyStr(S_A1)}
    \cup {PyList(l) : l \in SeqsUpTo(SubsetIds, MaxSubset)}

\* before any construction: no object, nothing printed
InitBuild ==
    /\ pc = "idle" /\ op = "none" /\ args = <<>> /\ ret = <<>>
    /\ city_list = CityList
    /\ entries = <<>> /\ ids = <<>> /\ longs = <<>>
    /\ stdout = <<>>
    /\ I = <<>> /\ max_hits = 0 /\ trace = <<>>

\* AntigenDataset.__init__, lines 370-375 (SerumDataset.__init__, lines
\* 356-361): Dataset.__init__ has given r; the entries are built from the
\* records kept, or an assertion fails and no object is delivered
Constructed(r) ==
    IF r.raised # "none" \/ ~entries_buildable(r.data)
    THEN /\ ret' = [raised |-> "AssertionError"]
         /\ stdout' = r.printed
         /\ pc' = "done"
         /\ UNCHANGED <<entries, ids, longs>>
    ELSE /\ entries' \in EntriesOf(r.data)
         /\ ids' = [k \in 1..Len(r.data) |-> Get(r.data[k], KeyId).v]
         /\ longs' = [k \in 1..Len(r.data) |-> Get(r.data[k], KeyLong).v]
         /\ ret' = [raised |-> "none"]
         /\ stdout' = r.printed
         /\ pc' = "checking"

Construct ==
    /\ pc = "idle"
    /\ \E data \in BuildData, id_subset \in BuildSubsets :
          /\ args' = [data |-> data, id_subset |-> id_subset]
          /\ Constructed(dataset_init(data, id_subset))
    /\ op' = "AntigenDataset"
    /\ UNCHANGED <<city_list, I, max_hits, trace>>

\* AntigenDataset.__init__, line 377: the diagnostics; an exception of theirs
\* leaves the constructor and no object is delivered
HealthCheck ==
    /\ pc = "checking"
    /\ ret' = [raised |-> general_health_check.raised]
    /\ stdout' = stdout \o general_health_check.printed
    /\ pc' = "done"
    /\ UNCHANGED <<op, args, city_list, entries, ids, longs, I, max_hits, trace>>

\* the caller is done with the object, or with the exception
Discard ==
    /\ pc = "done"
    /\ pc' = "idle" /\ op' = "none" /\ args' = <<>> /\ ret' = <<>>
    /\ entries' = <<>> /\ ids' = <<>> /\ longs' = <<>>
    /\ stdout' = <<>>
    /\ UNCHANGED <<city_list, I, max_hits, trace>>

NextBuild ==
    \/ Construct
    \/ HealthCheck
    \/ Discard

SpecBuild == InitBuild /\ [][NextBuild]_vars

-----------------------------------------------------------------------------
(* The derivation of a short name, one detected place at a time            *)

S_HONG == <<"H","O","N","G">>
S_IOW == <<"I","O","W">>
S_USSR == <<"U","S","S","R">>
S_RUSSIA == <<"R","U","S","S","I","A">>
S_UK == <<"U",".","K",".">>
S_89 == <<"8","9">>

\* the long names: one part, two parts joined by '/', and the name a place
\* of the directory spells with a '/'
LongParts == {S_HONG, S_IOWA, S_IOW, S_USSR, S_RUSSIA, S_UK, S_89, HONGKONG}
LongNames ==
    LongParts \cup {a \o Slash \o b : a \in LongParts, b \in LongParts}
    \cup {S_USSR \o Slash \o S_RUSSIA \o Slash \o S_89}

InitShort ==
    /\ pc = "idle" /\ op = "none" /\ args = <<>> /\ ret = <<>>
    /\ city_list = CityListHK /\ entries = <<>>
    /\ ids = <<>> /\ longs = <<>> /\ stdout = <<>>
    /\ I = <<>> /\ max_hits = 0 /\ trace = <<>>

\* _find_short_name, lines 59-60: the places found, in one of the orders the
\* set can have
StartShortName ==
    /\ pc = "idle"
    /\ \E long \in LongNames :
          \E cities \in Orders(Range(search(long, TRUE, FALSE, FALSE))) :
              /\ args' = [long |-> long, cities |-> cities]
              /\ ret' = long
    /\ trace' = <<>>
    /\ op' = "_find_short_name" /\ pc' = "rewriting"
    /\ UNCHANGED <<city_list, entries, ids, longs, stdout, I, max_hits>>

\* the turn of the loop for the city next in line, and what it turned the
\* short name into
Rewritten(city, short_name) ==
    /\ ret' = short_name
    /\ trace' = Append(trace, [city |-> city, before |-> ret, after |-> short_name])

\* _find_short_name, lines 63-74: one turn of the loop
RewriteStep ==
    /\ pc = "rewriting"
    /\ Len(trace) < Len(args.cities)
    /\ Rewritten(args.cities[Len(trace) + 1],
                 short_name_step(ret, args.cities[Len(trace) + 1]))
    /\ UNCHANGED <<pc, op, args, city_list, entries, ids, longs, stdout, I, max_hits>>

\* _find_short_name, line 75
ShortNameFound ==
    /\ pc = "rewriting"
    /\ Len(trace) = Len(args.cities)
    /\ pc' = "done"
    /\ UNCHANGED <<op, args, ret, city_list, entries, ids, longs, stdout, I,
                   max_hits, trace>>

NextShort ==
    \/ StartShortName
    \/ RewriteStep
    \/ ShortNameFound
    \/ ReturnToCaller

SpecShort == InitShort /\ [][NextShort]_vars

-----------------------------------------------------------------------------
(* The place inference of the refined search, one part at a time           *)

\* the largest number of parts of a query
MaxParts == 3

S_GIFUX == <<"G","I","F","U","X">>
S_IOXY == <<"I","O","X","Y">>
S_IOA == <<"I","O","A">>

\* the parts of the queries: one the directory finds, two within a quarter of
\* their length of a place name, one at a third of its length, one far from
\* every place name, the GYRF fragment, and the empty part
InferParts == {S_GIFU, S_GIFV, S_GIFUX, S_IOA, S_IOXY, GYRF \o <<"1">>, <<>>}

RECURSIVE PartLists(_)
\* query.split('/') for the queries of at most n parts
PartLists(n) ==
    IF n = 1 THEN {<<p>> : p \in InferParts}
    ELSE PartLists(n - 1)
         \cup {<<p>> \o r : p \in InferParts, r \in {l \in PartLists(n - 1) : Len(l) = n - 1}}

\* what the inference has come to: the names found, city_found, the part
\* the running loop is at, and the exception raised
Inferred(names, city_found, k, raised) ==
    [names |-> names, city_found |-> city_found, k |-> k, raised |-> raised]

\* what a loop does with a part, noted for the record of the run
Consulted(step, k, names) == [step |-> step, k |-> k, names |-> names]

InitInfer ==
    /\ pc = "idle" /\ op = "none" /\ args = <<>> /\ ret = <<>>
    /\ city_list = CityList /\ entries = <<>>
    /\ ids = <<>> /\ longs = <<>> /\ stdout = <<>>
    /\ I = <<>> /\ max_hits = 0 /\ trace = <<>>

\* _alias_search, lines 122-125: is there a part the directory finds
StartInference ==
    /\ pc = "idle"
    /\ \E search_names \in PartLists(MaxParts) :
          /\ args' = [search_names |-> search_names]
          /\ ret' = Inferred(<<>>,
                             \E k \in 1..Len(search_names) :
                                 Len(search(search_names[k], FALSE, FALSE, FALSE)) > 0,
                             1, "none")
    /\ trace' = <<>>
    /\ op' = "found_city_names" /\ pc' = "found"
    /\ UNCHANGED <<city_list, entries, ids, longs, stdout, I, max_hits>>

\* _alias_search, line 127, that goes on when a part was found
FoundSkips_never ==
    /\ pc = "found"
    /\ pc' = "cities"
    /\ UNCHANGED <<op, args, ret, city_list, entries, ids, longs, stdout, I,
                   max_hits, trace>>

\* _alias_search, line 127: nothing more when a part was found
FoundSkips ==
    /\ pc = "found"
    /\ pc' = IF ret.city_found THEN "done" ELSE "cities"
    /\ UNCHANGED <<op, args, ret, city_list, entries, ids, longs, stdout, I,
                   max_hits, trace>>

\* _alias_search, lines 129-143: one part of the loop over the parts, that
\* goes on after the GYRF pair
CityTurn_goes_on(part, k, found_cities) ==
    IF Len(found_cities) > 0
    THEN /\ ret' = Inferred(ret.names \o <<found_cities[1].name>>, TRUE, k + 1, "none")
         /\ trace' = Append(trace, Consulted("search", k, <<found_cities[1].name>>))
         /\ pc' = pc
    ELSE IF Contains(part, GYRF)
    THEN /\ ret' = Inferred(ret.names \o <<GYRFALCON, WASHINGTON>>, ret.city_found,
                            k + 1, "none")
         /\ trace' = trace \o <<Consulted("search", k, <<>>),
                                Consulted("GYRF", k, <<GYRFALCON, WASHINGTON>>)>>
         /\ pc' = pc
    ELSE /\ ret' = Inferred(ret.names, ret.city_found, k + 1, "none")
         /\ trace' = trace \o <<Consulted("search", k, <<>>),
                                Consulted("GYRF", k, <<>>)>>
         /\ pc' = pc

\* _alias_search, lines 129-143: one part of the loop over the parts; the
\* first city found for it is noted, or the GYRF pair, which ends the loop
CityTurn(part, k, found_cities) ==
    IF Len(found_cities) > 0
    THEN /\ ret' = Inferred(ret.names \o <<found_cities[1].name>>, TRUE, k + 1, "none")
         /\ trace' = Append(trace, Consulted("search", k, <<found_cities[1].name>>))
         /\ pc' = pc
    ELSE IF Contains(part, GYRF)
    THEN /\ ret' = Inferred(ret.names \o <<GYRFALCON, WASHINGTON>>, TRUE, k, "none")
         /\ trace' = trace \o <<Consulted("search", k, <<>>),
                                Consulted("GYRF", k, <<GYRFALCON, WASHINGTON>>)>>
         /\ pc' = "searched"
    ELSE /\ ret' = Inferred(ret.names, ret.city_found, k + 1, "none")
         /\ trace' = trace \o <<Consulted("search", k, <<>>),
                                Consulted("GYRF", k, <<>>)>>
         /\ pc' = pc

CityStep ==
    /\ pc = "cities"
    /\ ret.k <= Len(args.search_names)
    /\ CityTurn(args.search_names[ret.k], ret.k,
                search(args.search_names[ret.k], FALSE, FALSE, FALSE))
    /\ UNCHANGED <<op, args, city_list, entries, ids, longs, stdout, I, max_hits>>

\* the loop over the parts has run out
CitiesDone ==
    /\ pc = "cities"
    /\ ret.k > Len(args.search_names)
    /\ pc' = "searched"
    /\ UNCHANGED <<op, args, ret, city_list, entries, ids, longs, stdout, I,
                   max_hits, trace>>

\* _alias_search, line 145: the edit search only when no city was found
SearchedSkips ==
    /\ pc = "searched"
    /\ pc' = IF ret.city_found THEN "done" ELSE "edits"
    /\ ret' = [ret EXCEPT !.k = 1]
    /\ UNCHANGED <<op, args, city_list, entries, ids, longs, stdout, I,
                   max_hits, trace>>

\* _alias_search, lines 147-155, that takes a distance of up to half the length
EditTurn_lax(part, k, found) ==
    IF found[2] <= Len(part)
    THEN /\ ret' = Inferred(ret.names \o [x \in 1..Len(found[1]) |-> found[1][x].name],
                            TRUE, k, "none")
         /\ trace' = Append(trace, Consulted("esearch", k,
                                             [x \in 1..Len(found[1]) |-> found[1][x].name]))
         /\ pc' = "done"
    ELSE /\ ret' = Inferred(ret.names, ret.city_found, k + 1, "none")
         /\ trace' = Append(trace, Consulted("esearch", k, <<>>))
         /\ pc' = pc

\* _alias_search, lines 147-155: one part of the loop of the edit search;
\* found is esearch's result, its distance doubled
EditTurn(part, k, found) ==
    IF 2 * found[2] <= Len(part)
    THEN /\ ret' = Inferred(ret.names \o [x \in 1..Len(found[1]) |-> found[1][x].name],
                            TRUE, k, "none")
         /\ trace' = Append(trace, Consulted("esearch", k,
                                             [x \in 1..Len(found[1]) |-> found[1][x].name]))
         /\ pc' = "done"
    ELSE /\ ret' = Inferred(ret.names, ret.city_found, k + 1, "none")
         /\ trace' = Append(trace, Consulted("esearch", k, <<>>))
         /\ pc' = pc

EditStep ==
    /\ pc = "edits"
    /\ ret.k <= Len(args.search_names)
    /\ IF Len(args.search_names[ret.k]) = 0
       THEN /\ ret' = Inferred(ret.names, ret.city_found, ret.k, "ZeroDivisionError")
            /\ trace' = Append(trace, Consulted("esearch", ret.k, <<>>))
            /\ pc' = "done"
       ELSE EditTurn(args.search_names[ret.k], ret.k,
                     esearch(args.search_names[ret.k], TRUE))
    /\ UNCHANGED <<op, args, city_list, entries, ids, longs, stdout, I, max_hits>>

\* the loop of the edit search has run out
EditsDone ==
    /\ pc = "edits"
    /\ ret.k > Len(args.search_names)
    /\ pc' = "done"
    /\ UNCHANGED <<op, args, ret, city_list, entries, ids, longs, stdout, I,
                   max_hits, trace>>

NextInfer ==
    \/ StartInference
    \/ FoundSkips
    \/ CityStep
    \/ CitiesDone
    \/ SearchedSkips
    \/ EditStep
    \/ EditsDone
    \/ ReturnToCaller

SpecInfer == InitInfer /\ [][NextInfer]_vars

-----------------------------------------------------------------------------
(* The score of an entry for a query, one candidate name at a time         *)

S_H5N1 == <<"H","5","N","1">>
S_GIF == <<"G","I","F">>

\* the records scored: one with H5N1 as a value of its own, one with a
\* mutation in its long name, one with a year in a list
ScoreRecords == {
    Record(<<"A","1">>, S_GIFU \o Slash \o S_2003, <<(<<(<<"t">>), PyStr(S_H5N1)>>)>>),
    Record(<<"A","1","2">>, S_GIFU \o Slash \o S_2003 \o S_H27Y, <<>>),
    Record(<<"B","1">>, S_IOWA, <<(<<(<<"y">>), PyList(<<PyStr(S_2003)>>)>>)>>) }

\* the parts of the queries scored, and the queries: one part, or two parts
\* joined by '/'
ScoreParts == {S_GIFU, S_GIFV, S_2003, S_H5N1, S_GIF, S_2003 \o S_H27Y}
ScoreQueries ==
    ScoreParts \cup {a \o Slash \o b : a \in ScoreParts, b \in ScoreParts}

\* _alias_search, line 168, that takes a name of four characters
noise_filter_lax(name) ==
    \/ Len(name) > 3
    \/ Count(name, Digits) > 3
    \/ Count(name, Letters) > 3

\* _alias_search, line 168, without its count of letters
noise_filter_digits(name) ==
    \/ Len(name) > 4
    \/ Count(name, Digits) > 3

\* _alias_search, lines 166-168: the name is long enough to be looked for
noise_filter(name) ==
    \/ Len(name) > 4
    \/ Count(name, Digits) > 3
    \/ Count(name, Letters) > 3

\* what the scoring has come to: the candidate names, the one the loop is
\* at, the matches counted, and the exception raised
Scored(search_names, k, matches_, raised) ==
    [search_names |-> search_names, k |-> k, matches |-> matches_, raised |-> raised]

InitScore ==
    /\ pc = "idle" /\ op = "none" /\ args = <<>> /\ ret = <<>>
    /\ city_list = CityList /\ entries = <<>>
    /\ ids = <<>> /\ longs = <<>> /\ stdout = <<>>
    /\ I = <<>> /\ max_hits = 0 /\ trace = <<>>

\* entry._alias_search(query, ...), line 106
StartScore ==
    /\ pc = "idle"
    /\ \E data \in ScoreRecords, query \in ScoreQueries,
          ignore_case \in BOOLEAN, refined \in BOOLEAN,
          ignore_mutations \in BOOLEAN, regexp \in BOOLEAN :
          \E short \in find_short_name(Get(data, KeyLong).v) :
              /\ args' = [entry |-> Entry(data, short), query |-> query,
                          ignore_case |-> ignore_case, refined |-> refined,
                          ignore_mutations |-> ignore_mutations, regexp |-> regexp]
              /\ ret' = Scored(Split(query, "/"), 1, 0, "none")
    /\ trace' = <<>>
    /\ op' = "_alias_search" /\ pc' = "gate"
    /\ UNCHANGED <<city_list, entries, ids, longs, stdout, I, max_hits>>

\* the mutations of the parts of a name
Mutations(parts) ==
    Range(flatten_list([k \in 1..Len(parts) |-> FindMuts(parts[k], 1)]))

\* _alias_search, lines 111-118: no match when the mutations of the query
\* are not those of the long name
GateStep ==
    /\ pc = "gate"
    /\ pc' = IF /\ ~args.ignore_mutations
                /\ Mutations(ret.search_names) # Mutations(SplitAll(args.entry.long))
             THEN "done" ELSE "names"
    /\ UNCHANGED <<op, args, ret, city_list, entries, ids, longs, stdout, I,
                   max_hits, trace>>

\* the candidate names of the refined search, lines 159-160
RefinedNames(query, found) ==
    IF found.raised
    THEN Scored(<<>>, 1, 0, "ZeroDivisionError")
    ELSE Scored(SplitAll(query) \o found.names, 1, 0, "none")

\* _alias_search, lines 120-160: the candidate names
NamesStep ==
    /\ pc = "names"
    /\ ret' = IF args.refined
              THEN RefinedNames(args.query, found_city_names(ret.search_names))
              ELSE ret
    /\ pc' = IF ret'.raised = "none" THEN "scoring" ELSE "done"
    /\ UNCHANGED <<op, args, city_list, entries, ids, longs, stdout, I,
                   max_hits, trace>>

\* _alias_search, lines 164-171: one candidate name
ScoreStep ==
    /\ pc = "scoring"
    /\ ret.k <= Len(ret.search_names)
    /\ ret' = [ret EXCEPT
                  !.k = @ + 1,
                  !.matches =
                      IF /\ noise_filter(ret.search_names[ret.k])
                         /\ deep_search(args.entry, ret.search_names[ret.k],
                                        args.ignore_case, args.regexp)
                      THEN @ + 1 ELSE @]
    /\ trace' = Append(trace, [k |-> ret.k, name |-> ret.search_names[ret.k],
                               matches |-> ret'.matches])
    /\ UNCHANGED <<pc, op, args, city_list, entries, ids, longs, stdout, I,
                   max_hits>>

\* _alias_search, line 174
ScoreDone ==
    /\ pc = "scoring"
    /\ ret.k > Len(ret.search_names)
    /\ pc' = "done"
    /\ UNCHANGED <<op, args, ret, city_list, entries, ids, longs, stdout, I,
                   max_hits, trace>>

NextScore ==
    \/ StartScore
    \/ GateStep
    \/ NamesStep
    \/ ScoreStep
    \/ ScoreDone
    \/ ReturnToCaller

SpecScore == InitScore /\ [][NextScore]_vars

-----------------------------------------------------------------------------
(* Properties of the tools (checked under SpecTools)                       *)

\* C7: deep_eq is symmetric: deep_eq(a, b) and deep_eq(b, a) give the same
\* result for all values built from strings, numbers, lists and dicts: when
\* both calls return, they return the same.
DeepEqSymmetric ==
    (op = "deep_eq" /\ {ret.fwd, ret.bwd} \subseteq {"True", "False"})
        => ret.fwd = ret.bwd

\* C8: deep_eq is reflexive: deep_eq(x, x) is true for every structure built
\* from strings, numbers, lists and nested dicts, the empty dict included.
DeepEqReflexive ==
    op = "deep_eq_self" => ret.fwd = "True"

\* a dict nested in a dict, a list and a string have been compared with
\* themselves, and so has the empty dict
DeepEqReflexiveWitness ==
    /\ op = "deep_eq_self"
    /\ args.v1.t = "dict"
    /\ Len(args.v1.v) = 2
    /\ args.v1.v[1][2] = PyDict(<<>>)
    /\ args.v1.v[2][2].t = "list"
    /\ ret.fwd = "True"

\* the paths of a dict: the index lists i1, .., in that lead through dict
\* values to a (key, value) pair
RECURSIVE PathsOf(_)
PathsOf(d) ==
    UNION {{<<i>>} \cup
           (IF d.v[i][2].t = "dict"
            THEN {<<i>> \o p : p \in PathsOf(d.v[i][2])} ELSE {}) :
           i \in 1..Len(d.v)}

RECURSIVE PairAt(_, _)
PairAt(d, p) ==
    IF Len(p) = 1 THEN d.v[p[1]] ELSE PairAt(d.v[p[1]][2], Tail(p))

\* p comes before q in pre-order: p is a proper prefix of q, or p turns to an
\* earlier key where they part
PreOrderBefore(p, q) ==
    \/ Len(p) < Len(q) /\ \A i \in 1..Len(p) : p[i] = q[i]
    \/ \E i \in 1..Len(p) :
          /\ i <= Len(q) /\ p[i] < q[i]
          /\ \A j \in 1..(i - 1) : p[j] = q[j]

\* the stated rule for a key
KeyMatches(key, target, ignore_case, regexp) ==
    LET k == IF ignore_case THEN Upper(key) ELSE key
        s == IF ignore_case THEN Upper(target) ELSE target
    IN IF regexp THEN Contains(k, s) ELSE k = s

\* C9: dict_key_search returns every (key, value) pair, at any depth, whose key
\* matches, in pre-order: each matching pair stands at the place given by the
\* number of matching pairs before it, and there is nothing else.
DictKeySearchPreOrder ==
    op = "dict_key_search" =>
        LET P == {p \in PathsOf(args.dictionary) :
                     KeyMatches(PairAt(args.dictionary, p)[1], args.search_key,
                                args.ignore_case, args.regexp)}
        IN /\ Len(ret) = Cardinality(P)
           /\ \A p \in P :
                 ret[1 + Cardinality({q \in P : PreOrderBefore(q, p)})]
                     = PairAt(args.dictionary, p)

\* a matching key with a dict value was listed, then the match inside it, then
\* a later match beside it
DictKeySearchWitness ==
    /\ op = "dict_key_search"
    /\ Len(ret) = 3
    /\ Len(args.dictionary.v) = 2
    /\ ret[1][2].t = "dict"
    /\ ret[1][2].v # <<>>
    /\ ret[2] = ret[1][2].v[1]
    /\ ret[3] = args.dictionary.v[2]

\* the string leaves of a dict: the values, the elements of list values, and
\* the leaves of the dicts among either
RECURSIVE Leaves(_)
Leaves(d) ==
    LET OfItem(x) ==
            CASE x.t = "str"  -> {x.v}
              [] x.t = "dict" -> Leaves(x)
              [] OTHER -> {}
    IN UNION {IF d.v[i][2].t = "list"
              THEN UNION {OfItem(d.v[i][2].v[j]) : j \in 1..Len(d.v[i][2].v)}
              ELSE OfItem(d.v[i][2]) :
              i \in 1..Len(d.v)}

\* C10: without regexp, dict_search is true iff some leaf equals the target as
\* a whole string, compared case-insensitively iff ignore_case.
DictSearchLiteral ==
    (op = "dict_search" /\ ~args.regexp) =>
        (ret <=> \E leaf \in Leaves(args.dictionary) :
                    IF args.ignore_case
                    THEN Upper(leaf) = Upper(args.search_value)
                    ELSE leaf = args.search_value)

\* a leaf in a dict inside a list was found, by case folding alone
DictSearchWitness ==
    /\ op = "dict_search" /\ ~args.regexp /\ args.ignore_case
    /\ ret = TRUE
    /\ Len(args.dictionary.v) = 1
    /\ args.dictionary.v[1][2].t = "list"
    /\ args.dictionary.v[1][2].v # <<>>
    /\ args.dictionary.v[1][2].v[1].t = "dict"
    /\ args.search_value \notin Leaves(args.dictionary)

\* C20: deep_eq never takes a string for the sequence of its characters:
\* for a string s and a list L, deep_eq(s, L) and deep_eq(L, s) are both
\* false, as for s = 'ab' and L = ['a', 'b']
DeepEqStringAtomic ==
    (/\ pc = "done" /\ op = "deep_eq"
     /\ {args.v1.t, args.v2.t} = {"str", "list"}) =>
        (ret.fwd = "False" /\ ret.bwd = "False")

\* C19: for every string titer, convert_titer fails or returns a number
\* other than 0
ConvertTiterNeverZero ==
    (pc = "done" /\ op = "convert_titer" /\ args.titer.t = "str") =>
        (ret.raised # "none" \/ ret.value # 0)

-----------------------------------------------------------------------------
(* Properties of the Dataset (checked under Spec)                          *)

\* aliased_search has returned a list
SearchDone == pc = "done" /\ op = "aliased_search" /\ ret.raised = "none"

\* C1: on a non-empty Dataset aliased_search returns the empty list, or
\* entries that all have the same score, which is the maximum of the scores
\* in use and at least 2
AliasedSearchMaximal ==
    (SearchDone /\ entries # <<>>) =>
        \/ ret.idx = <<>>
        \/ \A k \in 1..Len(ret.idx) :
              /\ ret.value[k] = entries[ret.idx[k]]
              /\ I[ret.idx[k]] = I[ret.idx[1]]
              /\ I[ret.idx[k]] >= 2
              /\ \A x \in 1..Len(I) : I[x] <= I[ret.idx[k]]

\* a search that returns one entry and leaves out one with a lower score
AliasedSearchMaximalWitness ==
    /\ SearchDone
    /\ Len(entries) = 2 /\ Len(ret.idx) = 1
    /\ \E x \in 1..Len(I) : I[x] < I[ret.idx[1]]

\* C2: when the best score in use is at least 2, every entry with that score
\* is in the result, exactly once, and the result is in Dataset order
AliasedSearchAllTies ==
    (SearchDone /\ entries # <<>> /\ MaxOf(I) >= 2) =>
        /\ \A x \in 1..Len(I) :
              Cardinality({k \in 1..Len(ret.idx) : ret.idx[k] = x})
                  = IF I[x] = MaxOf(I) THEN 1 ELSE 0
        /\ \A j, k \in 1..Len(ret.idx) : j < k => ret.idx[j] < ret.idx[k]
        /\ \A k \in 1..Len(ret.idx) : ret.value[k] = entries[ret.idx[k]]

\* two different entries tie at the best score and both are returned
AliasedSearchAllTiesWitness ==
    /\ SearchDone
    /\ Len(entries) = 2 /\ entries[1] # entries[2]
    /\ I[1] = I[2] /\ I[1] >= 2
    /\ ret.idx = <<1, 2>>

\* the scores of the two passes for the query of the call in progress
PlainScores == Scores(args.search_name, args.ignore_case, FALSE, args.regexp)
RefinedScores == Scores(args.search_name, args.ignore_case, TRUE, args.regexp)

\* the positions that hold the maximum of the scores, if it is at least 2
BestAt(scores, best) ==
    {x \in 1..Len(scores) : scores[x] = best /\ best >= 2}

Best(scores) == BestAt(scores, MaxOf(scores))

\* the statement of C3 for the plain scores and their maximum
RefinedIffBelowTwo(plain, plain_max) ==
    /\ Len(trace) \in {1, 2}
    /\ trace[1] = [refined |-> FALSE, I |-> plain]
    /\ Len(trace) = 2 =>
          /\ plain_max < 2
          /\ trace[2] = [refined |-> TRUE, I |-> RefinedScores]
    /\ pc = "done" =>
          /\ (Len(trace) = 2) <=> (plain_max < 2)
          /\ {ret.idx[k] : k \in 1..Len(ret.idx)}
                 = IF plain_max >= 2 THEN Best(plain)
                   ELSE Best(trace[2].I)

RefinedIffBelowTwoOf(plain) == RefinedIffBelowTwo(plain, MaxOf(plain))

\* C3: the refined pass runs if and only if the plain pass over all entries
\* has finished with a maximum below 2; the result comes from the plain
\* scores alone if their maximum is at least 2, else from the refined scores
RefinedIffPlainBelowTwo ==
    (op = "aliased_search" /\ entries # <<>>) => RefinedIffBelowTwoOf(PlainScores)

\* the refined pass ran and found an entry the plain scores did not reach
RefinedIffPlainBelowTwoWitness ==
    /\ SearchDone
    /\ Len(trace) = 2
    /\ trace[1].I # trace[2].I
    /\ ret.idx # <<>>

\* the mutation tokens of the parts of a name
Muts(parts) ==
    Range(flatten_list([k \in 1..Len(parts) |-> FindMuts(parts[k], 1)]))

\* C4: with ignore_mutations false an entry scores 0, in plain and in refined
\* mode, whenever the mutation tokens of the query and of its long name
\* differ, and aliased_search does not return it
MutationGate ==
    (op = "aliased_search" /\ entries # <<>>) =>
        \A x \in 1..Len(entries) :
            Muts(Split(args.search_name, "/")) # Muts(SplitAll(entries[x].long)) =>
                /\ \A refined \in BOOLEAN :
                      alias_search(entries[x], args.search_name, args.ignore_case,
                                   refined, FALSE, args.regexp) = 0
                /\ \A p \in 1..Len(trace) : trace[p].I[x] = 0
                /\ SearchDone => \A k \in 1..Len(ret.idx) : ret.idx[k] # x

\* an entry with two parts of the query in its record scores 0 because of its
\* mutation token, and the other entry is returned
MutationGateWitness ==
    /\ SearchDone
    /\ Len(entries) = 2 /\ Len(ret.idx) = 1
    /\ \E x \in 1..2 :
          /\ Muts(Split(args.search_name, "/")) # Muts(SplitAll(entries[x].long))
          /\ matches(entries[x], Split(args.search_name, "/"),
                     args.ignore_case, args.regexp) >= 2
          /\ I[x] = 0
          /\ ret.idx[1] # x

\* get_entry by id has returned
GetEntryById == pc = "done" /\ op = "get_entry" /\ args.search_method = "id"

\* the ids of the Dataset are pairwise distinct
DistinctIds ==
    \A j, k \in 1..Len(entries) : j # k => entries[j].id # entries[k].id

\* no id, read as a pattern, has a match inside another id of the Dataset
NoIdInsideAnother ==
    \A j, k \in 1..Len(entries) :
        j # k => ~ReSearch(entries[j].id, entries[k].id, FALSE)

GetEntryFieldContainsValue ==
    (pc = "done" /\ op = "get_entry") =>
        ret.idx = Positions(Len(entries),
                            {k \in 1..Len(entries) :
                                 ReSearch(args.search_value,
                                          IF args.search_method = "id"
                                          THEN entries[k].id
                                          ELSE entries[k].long,
                                          FALSE)})

\* every place's aliases are the alias generation of its canonical name
AliasesGenerated ==
    \A c \in 1..Len(city_list) :
        city_list[c].aliases = generate_city_aliases(city_list[c].name)

\* a step leaves the Place Directory and the Dataset as they were
DirectoryAndDatasetKept ==
    /\ city_list' = city_list
    /\ entries' = entries /\ ids' = ids /\ longs' = longs

\* C18: no operation of a place, of the Place Directory, of the Dataset or
\* of an entry changes the Place Directory or the Dataset (entries with id,
\* long name, short name, properties and raw record), and at all times every
\* place's aliases are the alias generation of its canonical name
QueriesChangeNothing ==
    []AliasesGenerated /\ [][DirectoryAndDatasetKept]_vars

\* an aliased search and a search of the Place Directory have both returned
\* entries, respectively places
QueriesChangeNothingWitness ==
    /\ pc = "done" /\ op = "search"
    /\ Len(ret) > 0
    /\ Len(entries) = MaxEntries
    /\ \E c \in 1..Len(city_list) : Len(city_list[c].aliases) > 1

-----------------------------------------------------------------------------
(* Properties of the Place Directory (checked under SpecCities)            *)

\* C11: every place matches each of its own aliases with aliasing, both with
\* and without exact_match
MatchOwnAliases ==
    (pc = "done" /\ op = "match" /\ args.aliasing
        /\ args.query \in Range(city_list[args.city].aliases)) => ret = TRUE

\* a place is matched exactly by an alias that is not its canonical name
MatchOwnAliasesWitness ==
    /\ pc = "done" /\ op = "match" /\ args.aliasing /\ args.exact_match
    /\ args.query \in Range(city_list[args.city].aliases)
    /\ args.query # city_list[args.city].name
    /\ ret = TRUE

\* C12: for every separator s1 that occurs in the upper-cased name, the
\* aliases hold the name with s1 replaced by every other separator s2, and
\* the name with s1 removed
AliasesCoverEveryPair ==
    (pc = "done" /\ op = "generate_city_aliases") =>
        \A ind1 \in 1..4 :
            (\E i \in 1..Len(args.name) :
                 Upper(args.name)[i] = replace_chars[ind1]) =>
                /\ \A ind2 \in (1..4) \ {ind1} :
                      Replace(Upper(args.name), replace_chars[ind1],
                              <<replace_chars[ind2]>>) \in Range(ret)
                /\ Replace(Upper(args.name), replace_chars[ind1], <<>>)
                       \in Range(ret)

\* the strings a place is compared with
Candidates(city, aliasing) ==
    IF aliasing THEN Range(city.aliases) ELSE {city.name}

\* the least Levenshtein distance between the query and a place's candidates
PlaceDistance(city, query, aliasing) ==
    CHOOSE d \in {ed_eval(x, query) : x \in Candidates(city, aliasing)} :
        \A x \in Candidates(city, aliasing) : d <= ed_eval(x, query)

\* the least of the places' distances
DirectoryDistance(query, aliasing) ==
    CHOOSE m \in {PlaceDistance(city_list[c], query, aliasing) :
                     c \in 1..Len(city_list)} :
        \A c \in 1..Len(city_list) :
            m <= PlaceDistance(city_list[c], query, aliasing)

\* the statement of C13 for the least distance m; ret[2] is twice the
\* distance returned
EsearchReturns(m) ==
    /\ 2 * m < Len(args.query) =>
          /\ ret[1] = SelectIdx(city_list,
                                {c \in 1..Len(city_list) :
                                     PlaceDistance(city_list[c], args.query,
                                                   args.aliasing) = m},
                                1)
          /\ ret[2] = 2 * m
    /\ 2 * m >= Len(args.query) => ret = <<(<<>>), Len(args.query)>>
    /\ ret[1] # <<>> => ret[2] < Len(args.query)

\* C13: esearch returns the places at the least edit distance m, in directory
\* order, with m, when m < len(query)/2, and no place with len(query)/2
\* otherwise
EsearchLeastDistance ==
    (pc = "done" /\ op = "esearch") =>
        EsearchReturns(DirectoryDistance(args.query, args.aliasing))

\* two places tie at a least distance above 0 and below half the length
EsearchLeastDistanceWitness ==
    /\ pc = "done" /\ op = "esearch"
    /\ Len(ret[1]) = 2 /\ ret[2] > 0
    /\ ret[1][1] # ret[1][2]

\* the fragments of a query: the query itself, or its '/'-separated parts of
\* more than 2 characters
Fragments(query, split) ==
    IF split
    THEN SelectIdx(Split(query, "/"),
                   {k \in 1..Len(Split(query, "/")) :
                        Len(Split(query, "/")[k]) > 2},
                   1)
    ELSE <<query>>

\* the places that match one fragment, in directory order
PlacesMatching(fragment) ==
    SelectIdx(city_list,
              {c \in 1..Len(city_list) :
                   match(city_list[c], fragment, args.aliasing, args.exact_match)},
              1)

\* the statement of C14 for the fragments of the query
SearchReturns(fragments) ==
    /\ ret = flatten_list([f \in 1..Len(fragments) |-> PlacesMatching(fragments[f])])
    /\ \A c \in 1..Len(city_list) :
          Cardinality({k \in 1..Len(ret) : ret[k] = city_list[c]})
              = Cardinality({f \in 1..Len(fragments) :
                                match(city_list[c], fragments[f],
                                      args.aliasing, args.exact_match)})
    /\ (args.split /\ \A k \in 1..Len(Split(args.query, "/")) :
                          Len(Split(args.query, "/")[k]) <= 2) => ret = <<>>
    /\ (args.query = HONGKONG /\ args.aliasing) =>
          \A c \in 1..Len(city_list) :
              HONGKONG \in Range(city_list[c].aliases) =>
                  \E k \in 1..Len(ret) : ret[k] = city_list[c]

\* C14: search returns, for the fragments of the query in order, the places
\* that match the fragment, in directory order; a place matched by k
\* fragments appears k times; under split a query with no part longer than 2
\* returns nothing; with aliasing HONG-KONG is returned for HONGKONG
SearchConcatenatesFragments ==
    (pc = "done" /\ op = "search") =>
        SearchReturns(Fragments(args.query, args.split))

\* a query of two fragments, one of them too short, returns the places of the
\* other, HONGKONG and HONG-KONG, through aliasing
SearchConcatenatesFragmentsWitness ==
    /\ pc = "done" /\ op = "search"
    /\ args.split /\ args.aliasing
    /\ Len(Split(args.query, "/")) = 2
    /\ Len(Fragments(args.query, TRUE)) = 1
    /\ Len(ret) = 2 /\ ret[1] # ret[2]

\* the forms a query is tried in, and the strings of a place it is tried on
QueryForms(query, aliasing) ==
    IF aliasing THEN Range(generate_city_aliases(query)) ELSE {query}

\* the pattern q matches the whole of the string c, case ignored
MatchesWhole(q, c) ==
    \E alt \in Range(Alternatives(q)) :
        /\ Len(alt) = Len(c)
        /\ \A j \in 1..Len(alt) :
              alt[j] = "." \/ UpperChar(alt[j]) = UpperChar(c[j])

\* q occurs somewhere inside the string c, case ignored
OccursIn(q, c) == Contains(Upper(c), Upper(q))

HONGK == <<"H","O","N","G","K">>

\* C27: with exact_match, match succeeds only if the query, or with aliasing
\* one of its aliases, matches a whole candidate string of the place, case
\* ignored; without it a query that occurs inside a candidate string matches
\* too; without aliasing the canonical name is the only candidate and the
\* query as given its only form: HONGK finds HONGKONG without exact_match and
\* nothing with it
MatchWholeOrInside ==
    /\ (pc = "done" /\ op = "match") =>
          /\ (args.exact_match /\ ret = TRUE) =>
                \E q \in QueryForms(args.query, args.aliasing),
                   c \in Candidates(city_list[args.city], args.aliasing) :
                    MatchesWhole(q, c)
          /\ (~args.exact_match
                 /\ \E q \in QueryForms(args.query, args.aliasing),
                       c \in Candidates(city_list[args.city], args.aliasing) :
                        MatchesWhole(q, c) \/ OccursIn(q, c)) => ret = TRUE
    /\ (pc = "done" /\ op = "search" /\ args.query = HONGK /\ ~args.aliasing) =>
          IF args.exact_match THEN ret = <<>>
          ELSE Len(ret) = 1 /\ ret[1].name = HONGKONG


-----------------------------------------------------------------------------
(* Properties of the construction (checked under SpecBuild)                *)

\* the constructor has returned or raised
ConstructionOver == pc = "done" /\ op = "AntigenDataset"

\* the input is not a list, or an element of it is not a mapping
NotRecords(data) ==
    IF data.t # "list" THEN TRUE
    ELSE \E k \in 1..Len(data.v) : data.v[k].t # "dict"

\* some raw record of a list of mappings lacks the key
SomeLacks(data, key) == \E k \in 1..Len(data.v) : ~HasKey(data.v[k], key)

\* the k-th raw record, which has an id, becomes an entry: there is no
\* id_subset, or its id is one of the non-empty ids of the id_subset
BecomesEntry(data, id_subset, k) ==
    IF id_subset = PyNone THEN TRUE
    ELSE IF id_subset.t # "list" THEN FALSE
    ELSE \E j \in 1..Len(id_subset.v) :
            /\ id_subset.v[j] # PyStr(<<>>)
            /\ id_subset.v[j] = Get(data.v[k], KeyId)

WellFormedInput(data) ==
    IF NotRecords(data) THEN FALSE
    ELSE IF SomeLacks(data, KeyId) \/ SomeLacks(data, KeyLong) THEN FALSE
    ELSE \A k \in 1..Len(data.v) :
            Get(data.v[k], KeyId).t = "str" /\ Get(data.v[k], KeyLong).t = "str"

\* the ids, and the long names, of well-formed records
FieldOf(data, key) == [k \in 1..Len(data.v) |-> Get(data.v[k], key).v]

\* C16: construction, without id_subset, from well-formed records in which
\* ids or long names are duplicated completes without error and yields one
\* Entry per record, in input order
ConstructsWithDuplicates ==
    (/\ ConstructionOver
     /\ args.id_subset = PyNone
     /\ WellFormedInput(args.data)
     /\ \/ HasDuplicates(FieldOf(args.data, KeyId))
        \/ HasDuplicates(FieldOf(args.data, KeyLong))) =>
        /\ ret.raised = "none"
        /\ Len(entries) = Len(args.data.v)
        /\ \A k \in 1..Len(entries) : entries[k].data = args.data.v[k]


\* the input is a list of mappings with an id, and id_subset a list of
\* non-empty ids
SubsetOfIds(data, id_subset) ==
    IF NotRecords(data) THEN FALSE
    ELSE IF SomeLacks(data, KeyId) THEN FALSE
    ELSE IF id_subset.t # "list" THEN FALSE
    ELSE \A j \in 1..Len(id_subset.v) :
            id_subset.v[j].t = "str" /\ id_subset.v[j].v # <<>>

RECURSIVE CopiesOf(_, _)
\* the raw records whose id equals id1, every copy, in input order
CopiesOf(data, id1) ==
    IF data = <<>> THEN <<>>
    ELSE (IF Get(Head(data), KeyId) = id1 THEN <<Head(data)>> ELSE <<>>)
         \o CopiesOf(Tail(data), id1)

RECURSIVE Concatenation(_, _)
\* the copies of i1, then those of i2, ... for id_subset = [i1, i2, ...]
Concatenation(data, id_subset) ==
    IF id_subset = <<>> THEN <<>>
    ELSE CopiesOf(data, Head(id_subset)) \o Concatenation(data, Tail(id_subset))

\* the constructor has built the entries, or has failed
EntriesBuilt == op = "AntigenDataset" /\ pc \in {"checking", "done"}

\* the raw records of the entries
RawRecords == [k \in 1..Len(entries) |-> entries[k].data]

\* the entries are built from the records expected, and a failure comes from
\* the records expected: one without long name, or duplicates among them that
\* the diagnostics look up
SubsetKeeps(expected) ==
    IF \E k \in 1..Len(expected) : ~HasKey(expected[k], KeyLong)
    THEN ret.raised = "AssertionError"
    ELSE /\ RawRecords = expected
         /\ ret.raised \in {"none", "re.error"}
         /\ ret.raised = "re.error" =>
               HasDuplicates([k \in 1..Len(expected) |-> Get(expected[k], KeyId)])

ReportedIdentical(j, k) ==
    \E n \in 1..Len(stdout) :
        /\ stdout[n].msg = "identical"
        /\ stdout[n].long = entries[j].long
        /\ {stdout[n].first, stdout[n].second} = {j, k}

\* C21: once a Dataset is delivered, the diagnostics have reported every
\* pair of distinct entries that share a long name and whose raw records are
\* equal by deep equality
IdenticalPairsReported ==
    (ConstructionOver /\ ret.raised = "none") =>
        \A j, k \in 1..Len(entries) :
            (/\ j < k
             /\ entries[j].long = entries[k].long
             /\ deep_eq(entries[j].data, entries[k].data) = "True")
                => ReportedIdentical(j, k)


\* the distinct places detected in a long name, in Place Directory order
DetectedInOrder(long) ==
    SelectIdx(city_list,
              {c \in 1..Len(city_list) :
                   city_list[c] \in Range(search(long, TRUE, FALSE, FALSE))}, 1)

\* the entries are built and no assertion has failed
EntriesDelivered ==
    EntriesBuilt /\ (pc = "done" => ret.raised # "AssertionError")

\* C22: the short name of every entry is the long name with the replacements
\* of the places detected applied in Place Directory order, each on the name
\* as rewritten so far: a function of the long name and the directory
ShortNameInDirectoryOrder ==
    EntriesDelivered =>
        \A k \in 1..Len(entries) :
            entries[k].short =
                short_name_loop(entries[k].long, DetectedInOrder(entries[k].long), 1)


-----------------------------------------------------------------------------
(* Properties of the short name (checked under SpecShort)                  *)

RECURSIVE OccurrencesReplaced(_, _, _, _)
\* s from position i on, every occurrence of name met from left to right
\* replaced by abb and the other characters kept
OccurrencesReplaced(s, name, abb, i) ==
    IF i > Len(s) THEN <<>>
    ELSE IF i + Len(name) - 1 <= Len(s) /\ Slice(s, i, i + Len(name) - 1) = name
    THEN abb \o OccurrencesReplaced(s, name, abb, i + Len(name))
    ELSE <<s[i]>> \o OccurrencesReplaced(s, name, abb, i + 1)

\* the segments sa are the segments sb with the segment m replaced by abb
OneSegmentReplaced(sb, sa, m, abb) ==
    /\ Len(sa) = Len(sb)
    /\ sa[m] = abb
    /\ \A j \in 1..Len(sb) : j # m => sa[j] = sb[j]

\* the segment m is at the least edit distance from name
NearestSegment(sb, m, name) ==
    \A j \in 1..Len(sb) : ed_eval(sb[m], name) <= ed_eval(sb[j], name)

\* a turn of the loop: the canonical name, if it occurs in the short name, is
\* replaced by the code; otherwise one segment, nearest to the canonical
\* name, is replaced by the code and the other segments are kept
TurnAsDescribed(turn) ==
    IF Contains(turn.before, turn.city.name)
    THEN turn.after =
             OccurrencesReplaced(turn.before, turn.city.name, turn.city.abb, 1)
    ELSE \E m \in 1..Len(Split(turn.before, "/")) :
            /\ OneSegmentReplaced(Split(turn.before, "/"), Split(turn.after, "/"),
                                  m, turn.city.abb)
            /\ NearestSegment(Split(turn.before, "/"), m, turn.city.name)

\* the number of '/'-segments
Segments(s) == Len(Split(s, "/"))

\* a short name is being derived, or has been
Deriving == op = "_find_short_name" /\ pc \in {"rewriting", "done"}

\* every turn so far is as described, and without a place detected the
\* short name is the long name
TurnsAsDescribed ==
    /\ \A n \in 1..Len(trace) : TurnAsDescribed(trace[n])
    /\ args.cities = <<>> => ret = args.long

-----------------------------------------------------------------------------
(* A property of aliased_search (checked under Spec)                       *)

\* C30: aliased_search on a Dataset without entries returns no list, the
\* empty one neither: the maximum of the empty array of scores raises
AliasedSearchOfNoEntries ==
    pc = "done" /\ op = "aliased_search" /\ entries = <<>> =>
        /\ ret.raised = "ValueError"
        /\ ret.raised # "none"
        /\ I = <<>>

AliasedSearchOfNoEntriesWitness ==
    /\ pc = "done" /\ op = "aliased_search"
    /\ entries = <<>> /\ I = <<>>
    /\ ret.raised = "ValueError"

-----------------------------------------------------------------------------
(* Properties of the place inference (checked under SpecInfer)             *)

Inferring == op = "found_city_names"

\* the parts of the query the directory search finds a place for
HitParts ==
    {k \in 1..Len(args.search_names) :
         Len(search(args.search_names[k], FALSE, FALSE, FALSE)) > 0}

GYRFParts ==
    {k \in 1..Len(args.search_names) : Contains(args.search_names[k], GYRF)}

\* the rules in the order the spec gives them
Rank(step) == IF step = "search" THEN 1 ELSE IF step = "GYRF" THEN 2 ELSE 3

\* the rules are consulted in order: the edit search after the two others,
\* and for one part the directory search before the GYRF rule
ConsultedInOrder ==
    \A i, j \in 1..Len(trace) :
        i < j =>
            /\ Rank(trace[i].step) = 3 => Rank(trace[j].step) = 3
            /\ trace[i].k = trace[j].k => Rank(trace[i].step) <= Rank(trace[j].step)

\* nothing is consulted once a rule has given a name
FirstNameStops ==
    \A i \in 1..Len(trace) : i < Len(trace) => trace[i].names = <<>>

\* C24: when no part of the query has a place in the directory, the rules are
\* consulted in the order directory search, GYRF rule, edit search, and the
\* first that gives a name ends the inference: a part with GYRF in it gives
\* exactly GYRFALCON and WASHINGTON and the edit search is not consulted;
\* the edit search is consulted only when the two others gave no name
InferenceInOrder ==
    Inferring /\ HitParts = {} =>
        /\ ConsultedInOrder
        /\ FirstNameStops
        /\ pc = "done" /\ GYRFParts # {} =>
              /\ ret.names = <<GYRFALCON, WASHINGTON>>
              /\ \A i \in 1..Len(trace) : trace[i].step # "esearch"
        /\ \A i \in 1..Len(trace) :
              trace[i].step = "esearch" =>
                  \A j \in 1..Len(trace) :
                      trace[j].step # "esearch" => trace[j].names = <<>>

\* a query with a part near a place name and then a part with GYRF in it
InferenceInOrderWitness ==
    /\ Inferring /\ pc = "done"
    /\ args.search_names = <<S_GIFV, GYRF \o <<"1">>>>
    /\ ret.names = <<GYRFALCON, WASHINGTON>>
    /\ Len(trace) = 4

\* the least edit distance of a query to the places of the directory
min_edist(query) == MinOf(city_edistances(city_list, query, TRUE, 1))

\* the part qualifies for the edit search: d / len(f) <= 0.25
Qualifies(f) == Len(f) > 0 /\ 4 * min_edist(f) <= Len(f)

\* the canonical names of the places at the least edit distance of a query
NearestNames(f) ==
    LET near == SelectIdx(city_list,
                          {c \in 1..Len(city_list) :
                               ematch(city_list[c], f, TRUE) = min_edist(f)}, 1)
    IN [x \in 1..Len(near) |-> near[x].name]

\* C25: the names the edit search gives come from one part of the query, the
\* first that qualifies, and are the places at the least edit distance d of
\* that part, with d / len(part) <= 0.25; a part whose ratio is above 0.25
\* gives no name, and no length of zero is divided by
EditSearchQualified ==
    Inferring =>
        /\ ret.raised # "ZeroDivisionError"
        /\ \A i \in 1..Len(trace) :
              trace[i].step = "esearch" =>
                  /\ Len(args.search_names[trace[i].k]) > 0
                  /\ trace[i].names # <<>> =>
                        /\ Qualifies(args.search_names[trace[i].k])
                        /\ trace[i].names = NearestNames(args.search_names[trace[i].k])
                        /\ ret.names = trace[i].names
                        /\ \A j \in 1..(trace[i].k - 1) :
                              ~Qualifies(args.search_names[j])
                  /\ ~Qualifies(args.search_names[trace[i].k]) =>
                        trace[i].names = <<>>

\* a part at a third of its length of a place name, then one at a quarter
EditSearchQualifiedWitness ==
    /\ Inferring /\ pc = "done"
    /\ args.search_names = <<S_IOA, S_GIFV, S_GIFUX>>
    /\ ret.names = <<S_GIFU>>
    /\ Len(trace) = 8

-----------------------------------------------------------------------------
(* Properties of the score (checked under SpecScore)                       *)

Scoring == op = "_alias_search"

LettersIn(name) == Cardinality({j \in 1..Len(name) : name[j] \in Letters})
DigitsIn(name) == Cardinality({j \in 1..Len(name) : name[j] \in Digits})

\* the name is long enough to add to the score
Informative(name) == Len(name) > 4 \/ LettersIn(name) > 3 \/ DigitsIn(name) > 3

\* the name is one the claim takes for noise
Noise(name) ==
    \/ Len(name) <= 3
    \/ Len(name) = 4 /\ LettersIn(name) > 0 /\ DigitsIn(name) > 0

\* the matches counted before the i-th candidate name
MatchesBefore(i) == IF i = 1 THEN 0 ELSE trace[i - 1].matches

\* the name is found in the record of the entry scored
InRecord(name) ==
    deep_search(args.entry, name, args.ignore_case, args.regexp)

\* C26: a candidate name adds to the score only if it is longer than 4, or
\* has more than 3 letters, or more than 3 digits; a name of at most 3
\* characters, or of 4 that mixes letters and digits, as H5N1, never adds to
\* the score, even when it occurs in the record of the entry
OnlyInformativeNamesCount ==
    Scoring =>
        \A i \in 1..Len(trace) :
            /\ trace[i].matches > MatchesBefore(i) => Informative(trace[i].name)
            /\ Noise(trace[i].name) => trace[i].matches = MatchesBefore(i)
            /\ trace[i].matches \in {MatchesBefore(i), MatchesBefore(i) + 1}

\* H5N1 is a value of the record, and after GIFU the score is where it was
OnlyInformativeNamesCountWitness ==
    /\ Scoring /\ pc = "done"
    /\ args.query = S_GIFU \o Slash \o S_H5N1
    /\ InRecord(S_H5N1) /\ args.regexp
    /\ Len(trace) = 2
    /\ trace[1].matches = 1 /\ trace[2].matches = 1

\* the candidate names of a query: its parts and, in the refined search, the
\* parts of its parts and the place names found for it
CandidateNames ==
    IF args.refined
    THEN SplitAll(args.query) \o found_city_names(Split(args.query, "/")).names
    ELSE Split(args.query, "/")

\* the positions of the candidate names that count
CountingPositions ==
    {k \in 1..Len(CandidateNames) :
         Informative(CandidateNames[k]) /\ InRecord(CandidateNames[k])}

\* the mutations of the query are those of the long name, or are not looked at
GatePasses ==
    \/ args.ignore_mutations
    \/ Mutations(Split(args.query, "/")) = Mutations(SplitAll(args.entry.long))

\* the query is one part twice, a part that counts
TwiceTheSame ==
    \E f \in ScoreParts :
        args.query = f \o Slash \o f /\ Informative(f) /\ InRecord(f)

ScoreIsCount ==
    /\ ret.matches = Cardinality(CountingPositions)
    /\ 0 <= ret.matches /\ ret.matches <= Len(CandidateNames)
    /\ TwiceTheSame => ret.matches >= 2 /\ ~below_threshold(ret.matches)

\* C29 as stated: the score is the number of positions of the candidate names
\* that pass the noise filter and match the entry, between 0 and the number
\* of candidate names; a part repeated k times counts k times, so a query of
\* one matching part twice reaches the threshold of aliased_search
ScoreCountsPositions ==
    (Scoring /\ pc = "done") => ScoreIsCount

\* C29, amended: so it is when the mutations of the query are those of the
\* long name or are ignored; otherwise the score is 0
ScoreCountsPositionsGated ==
    (Scoring /\ pc = "done") =>
        /\ ret.raised = "none"
        /\ IF GatePasses THEN ScoreIsCount ELSE ret.matches = 0

\* GIFU/GIFU scores 2 on a record with one GIFU
ScoreCountsPositionsGatedWitness ==
    /\ Scoring /\ pc = "done" /\ ~args.refined
    /\ args.query = S_GIFU \o Slash \o S_GIFU
    /\ args.entry.long = S_GIFU \o Slash \o S_2003
    /\ GatePasses
    /\ ret.matches = 2

=============================================================================
